---- MODULE Spec2Model ----
(***************************************************************************)
(* Mars lander exercise: the physics integrator, the collision and landing *)
(* classifier, the lander runner and the genetic solver.                   *)
(*                                                                         *)
(* Floating point values are modelled in fixed point: a length of one map  *)
(* unit is Scale grid steps, a velocity of one unit per tick is Scale grid *)
(* steps per tick.  Angles are whole degrees (the genes are i32 and the    *)
(* scenario angle is a whole number), powers and fuel are integers as in   *)
(* the source.                                                             *)
(***************************************************************************)
EXTENDS Integers, Sequences, FiniteSets, TLC

VARIABLES
    \* Physics.iterate applied to drawn inputs
    ph_lander, ph_prev, ph_cmd, ph_result, ph_steps, ph_fuel0, ph_burn,
    \* CollisionChecker.check applied to drawn inputs
    ck_terrain, ck_prev, ck_cur, ck_result, ck_done,
    \* the outcome of CollisionChecker.try_new and the target it stores
    ck_built, ck_target,
    \* check_collision applied to drawn segments
    cc_a, cc_b, cc_result, cc_done,
    \* the scenario and the settings
    terrain, initial_lander_state, settings,
    \* Solver
    population, accumulated_population,
    \* the argument and the outcome of the last new_generation call
    population_before, fitness_in, solver_result, generation,
    \* LanderRunner
    landers, states, iteration_id,
    \* the result of the last LanderRunner.iterate call
    exec_status,
    \* App
    fitness_calculator, current_fitness, flight_histories, population_id,
    \* the last call made on the App and its outcome
    app_call, app_result,
    \* crossed applied to drawn parents, and to the same parents swapped
    cr_a, cr_b, cr_i, cr_range, cr_result, cr_swapped, cr_done,
    \* a MapIterator: its input, its fields, the segments it has yielded and
    \* what the last call of next returned
    mi_terrain, previous_point, map_iter, mi_yielded, mi_last

ph_vars == <<ph_lander, ph_prev, ph_cmd, ph_result, ph_steps, ph_fuel0, ph_burn>>

ck_vars == <<ck_terrain, ck_prev, ck_cur, ck_result, ck_done, ck_built, ck_target>>

cc_vars == <<cc_a, cc_b, cc_result, cc_done>>

scenario_vars == <<terrain, initial_lander_state, settings>>

solver_vars == <<population, accumulated_population,
                 population_before, fitness_in, solver_result, generation>>

runner_vars == <<landers, states, iteration_id, exec_status>>

app_vars == <<fitness_calculator, current_fitness, flight_histories, population_id,
              app_call, app_result>>

cr_vars == <<cr_a, cr_b, cr_i, cr_range, cr_result, cr_swapped, cr_done>>

mi_vars == <<mi_terrain, previous_point, map_iter, mi_yielded, mi_last>>

vars == <<ph_vars, ck_vars, cc_vars, scenario_vars, solver_vars, runner_vars, app_vars,
          cr_vars, mi_vars>>

----------------------------------------------------------------------------
(* Bounds of the model *)

\* number of Physics.iterate calls applied in a row to one drawn state
MaxPhysSteps == 2

\* cap on the runner's iteration counter
MaxIter == 14

\* landers (= population size) and genes per chromosome of a simulated run
RunnerLanders == 2

RunnerChromosome == 2

\* the drawn segments of check_collision end on whole units 0..MaxCoord
MaxCoord == 3

\* landers whose terminal outcomes one calculate_fitness call scores
MaxLandings == 3

\* cap on population_id, the generations of a session of the App
MaxGenerations == 2

\* genes of the parents crossed is applied to
MaxGenes == 2

\* points of the polylines a MapIterator is built on
MaxPoints == 3

----------------------------------------------------------------------------
(* Arithmetic helpers *)

Abs(x) == IF x < 0 THEN -x ELSE x

Min(a, b) == IF a < b THEN a ELSE b

Max(a, b) == IF a > b THEN a ELSE b

\* a / b rounded to the nearest integer (b > 0), the rounding of an f64 result
RoundDiv(a, b) == (2 * a + b) \div (2 * b)

\* Op(arg), with arg evaluated once before Op is applied to its value (an
\* operator argument or a LET definition is evaluated again at every use)
WithValue(arg, Op(_)) == CHOOSE result \in {Op(value) : value \in {arg}} : TRUE

\* grid steps per map unit
Scale == 20

----------------------------------------------------------------------------
(* physics.rs *)

G == (3711 * Scale) \div 1000

ANGLE_STEP == 15

POWER_STEP == 1

POWER_MAX == 4

ANGLE_LIMIT == 90

DT == 1

\* 1000 * sin(d degrees) for d = 0..90, as f64::sin_cos gives it to 3 digits
SinTable ==
    << 0, 17, 35, 52, 70, 87, 105, 122, 139, 156, 174, 191, 208, 225, 242,
       259, 276, 292, 309, 326, 342, 358, 375, 391, 407, 423, 438, 454, 469,
       485, 500, 515, 530, 545, 559, 574, 588, 602, 616, 629, 643, 656, 669,
       682, 695, 707, 719, 731, 743, 755, 766, 777, 788, 799, 809, 819, 829,
       839, 848, 857, 866, 875, 883, 891, 899, 906, 914, 921, 927, 934, 940,
       946, 951, 956, 961, 966, 970, 974, 978, 982, 985, 988, 990, 993, 995,
       996, 998, 999, 999, 1000, 1000 >>

\* 1000 * sin(a degrees), a in -90..90
SinMilli(a) == IF a < 0 THEN -SinTable[1 - a] ELSE SinTable[1 + a]

\* 1000 * cos(a degrees), a in -90..90
CosMilli(a) == SinTable[1 + 90 - Abs(a)]

Thrust(angle, power) == [angle |-> angle, power |-> power]

\* Thrust::into_vector: (cos(angle+90) * power, sin(angle+90) * power), in
\* grid steps; cos(a+90) = -sin(a), sin(a+90) = cos(a).  The components are
\* kept even so that the half step t/2 of the position update is exact.
into_vector(t) ==
    [x |-> 2 * RoundDiv(-SinMilli(t.angle) * t.power * Scale, 2000),
     y |-> 2 * RoundDiv(CosMilli(t.angle) * t.power * Scale, 2000)]

LanderState(x, y, vx, vy, fuel, angle, power) ==
    [x |-> x, y |-> y, vx |-> vx, vy |-> vy,
     fuel |-> fuel, angle |-> angle, power |-> power]

clamp(value, lower, upper) ==
    IF value < lower THEN lower
    ELSE IF value > upper THEN upper
    ELSE value

\* validate_thrust without the lower bound on the power
validate_thrust_noLowerBound(thrust) ==
    /\ Abs(thrust.angle) <= ANGLE_LIMIT
    /\ thrust.power <= POWER_MAX

validate_thrust(thrust) ==
    /\ Abs(thrust.angle) <= ANGLE_LIMIT
    /\ thrust.power <= POWER_MAX
    /\ thrust.power >= 0

\* update_thrust that takes the commanded angle without the rate clamp
update_thrust_noAngleClamp(lander, cmd) ==
    IF lander.fuel > cmd.power
    THEN [power |-> lander.power
                      + clamp(cmd.power - lander.power, -POWER_STEP, POWER_STEP),
          angle |-> cmd.angle]
    ELSE [power |-> 0, angle |-> lander.angle]

\* "update thrust": the power and the angle the lander flies with this tick
update_thrust(lander, cmd) ==
    IF lander.fuel > cmd.power
    THEN [power |-> lander.power
                      + clamp(cmd.power - lander.power, -POWER_STEP, POWER_STEP),
          angle |-> lander.angle
                      + clamp(cmd.angle - lander.angle, -ANGLE_STEP, ANGLE_STEP)]
    ELSE [power |-> 0, angle |-> lander.angle]

\* "consume fuel" without the reset of a negative result to 0
consume_fuel_noFloor(fuel, power) == fuel - power

\* "consume fuel"
consume_fuel(fuel, power) ==
    IF fuel - power < 0 THEN 0 ELSE fuel - power

\* Physics::iterate that burns the power of the previous tick
PhysicsIterate_burnsOldPower(lander, cmd) ==
    IF ~validate_thrust(cmd)
    THEN [ok |-> FALSE, err |-> "InvalidThrust", state |-> lander]
    ELSE
      WithValue(update_thrust(lander, cmd), LAMBDA th :
      WithValue(into_vector(Thrust(th.angle, th.power)), LAMBDA t :
        [ok |-> TRUE, err |-> "none",
         state |->
           [x     |-> lander.x + lander.vx * DT + (t.x \div 2) * DT * DT,
            y     |-> lander.y + lander.vy * DT + ((t.y - G) \div 2) * DT * DT,
            vx    |-> lander.vx + t.x * DT,
            vy    |-> lander.vy + (t.y - G) * DT,
            fuel  |-> consume_fuel(lander.fuel, lander.power),
            angle |-> th.angle,
            power |-> th.power]]))

\* Physics::iterate: Err(InvalidThrust) or Ok(successor state)
PhysicsIterate(lander, cmd) ==
    IF ~validate_thrust(cmd)
    THEN [ok |-> FALSE, err |-> "InvalidThrust", state |-> lander]
    ELSE
      WithValue(update_thrust(lander, cmd), LAMBDA th :
      WithValue(into_vector(Thrust(th.angle, th.power)), LAMBDA t :
        [ok |-> TRUE, err |-> "none",
         state |->
           [x     |-> lander.x + lander.vx * DT + (t.x \div 2) * DT * DT,
            y     |-> lander.y + lander.vy * DT + ((t.y - G) \div 2) * DT * DT,
            vx    |-> lander.vx + t.x * DT,
            vy    |-> lander.vy + (t.y - G) * DT,
            fuel  |-> consume_fuel(lander.fuel, th.power),
            angle |-> th.angle,
            power |-> th.power]]))

----------------------------------------------------------------------------
(* collision.rs *)

MAX_VERTICAL_SPEED == 40

MAX_HORIZONTAL_SPEED == 20

Vec2(x, y) == [x |-> x, y |-> y]

cross(v, w) == v.x * w.y - v.y * w.x

\* Vec2::dot as written in the source: x*x' + y + y'.  The coordinates are in
\* grid steps, so the product is in grid steps squared and the two y terms
\* are brought to the same unit with one factor Scale.
dot(v, w) == v.x * w.x + Scale * (v.y + w.y)

subtract(v, w) == Vec2(v.x - w.x, v.y - w.y)

\* floor of the square root
RECURSIVE ISqrtBetween(_, _, _)
ISqrtBetween(n, lo, hi) ==
    IF lo >= hi THEN lo
    ELSE WithValue((lo + hi + 1) \div 2, LAMBDA mid :
           IF mid * mid <= n THEN ISqrtBetween(n, mid, hi)
                             ELSE ISqrtBetween(n, lo, mid - 1))

ISqrt(n) == ISqrtBetween(n, 0, 46340)

\* distance: f64::hypot, to the grid step
distance(a, b) ==
    WithValue((a.x - b.x) * (a.x - b.x) + (a.y - b.y) * (a.y - b.y), ISqrt)

\* An f64 quotient n / d: finite (d > 0 after normalising the sign), or what
\* IEEE-754 gives for a zero divisor.
FDiv(n, d) ==
    IF d > 0 THEN [k |-> "fin", n |-> n, d |-> d]
    ELSE IF d < 0 THEN [k |-> "fin", n |-> -n, d |-> -d]
    ELSE IF n > 0 THEN [k |-> "pinf", n |-> 0, d |-> 1]
    ELSE IF n < 0 THEN [k |-> "ninf", n |-> 0, d |-> 1]
    ELSE [k |-> "nan", n |-> 0, d |-> 1]

FAdd(a, b) ==
    IF a.k = "nan" \/ b.k = "nan" THEN [k |-> "nan", n |-> 0, d |-> 1]
    ELSE IF a.k = "fin" /\ b.k = "fin"
         THEN IF a.d = b.d THEN [k |-> "fin", n |-> a.n + b.n, d |-> a.d]
              ELSE [k |-> "fin", n |-> a.n * b.d + b.n * a.d, d |-> a.d * b.d]
    ELSE IF a.k = "fin" THEN b
    ELSE IF b.k = "fin" THEN a
    ELSE IF a.k = b.k THEN a
    ELSE [k |-> "nan", n |-> 0, d |-> 1]

FLess(a, b) ==
    IF a.k = "nan" \/ b.k = "nan" THEN FALSE
    ELSE IF a.k = "fin" /\ b.k = "fin"
         THEN IF a.d = b.d THEN a.n < b.n ELSE a.n * b.d < b.n * a.d
    ELSE IF a.k = "ninf" THEN b.k # "ninf"
    ELSE IF a.k = "pinf" THEN FALSE
    ELSE b.k = "pinf"

\* a > i and a < i for an integer i
FGreaterInt(a, i) ==
    IF a.k = "fin" THEN a.n > i * a.d ELSE a.k = "pinf"

FLessInt(a, i) ==
    IF a.k = "fin" THEN a.n < i * a.d ELSE a.k = "ninf"

\* (0f64..=1f64).contains(n / d) for d # 0
InUnitRange(n, d) ==
    IF d > 0 THEN 0 <= n /\ n <= d ELSE d <= n /\ n <= 0

\* v * n / d rounded to the grid (d # 0)
ScaleBy(v, n, d) ==
    LET a == IF d > 0 THEN v * n ELSE -(v * n)
        b == Abs(d)
    IN (a \div b) + (IF 2 * (a % b) >= b THEN 1 ELSE 0)

NoCollision == [hit |-> FALSE, x |-> 0, y |-> 0]

Collision(x, y) == [hit |-> TRUE, x |-> x, y |-> y]

\* check_collision that never reports a crossing
check_collision_blind(segment_a, segment_b) == NoCollision

check_collision(segment_a, segment_b) ==
    WithValue(<<segment_a, segment_b>>, LAMBDA segments :
      LET p   == segments[1][1]
          r   == subtract(segments[1][2], p)
          q   == segments[2][1]
          s   == subtract(segments[2][2], q)
          rs  == cross(r, s)
          q_p == subtract(q, p)
          qpr == cross(q_p, r)
          qps == cross(q_p, s)
      IN IF rs = 0 /\ qpr = 0
         THEN \* collinear: check if overlapping
              LET rr == dot(r, r)
                  a0 == FDiv(dot(q_p, r), rr)
                  a1 == FAdd(a0, FDiv(dot(s, r), rr))
                  t0 == IF FLess(a0, a1) THEN a0 ELSE a1
                  t1 == IF FLess(a0, a1) THEN a1 ELSE a0
              IN IF FGreaterInt(t0, 1) \/ FLessInt(t1, 0)
                 THEN NoCollision
                 ELSE Collision(q.x, q.y)
         ELSE IF rs = 0 /\ qpr # 0
         THEN NoCollision
         ELSE IF rs # 0 /\ InUnitRange(qps, rs) /\ InUnitRange(qpr, rs)
         THEN Collision(p.x + ScaleBy(r.x, qps, rs), p.y + ScaleBy(r.y, qps, rs))
         ELSE NoCollision)

Terrain(max_x, max_y, x, y) == [max_x |-> max_x, max_y |-> max_y, x |-> x, y |-> y]

\* MapIterator::new without the two closing points
MapPoints_open(ter) ==
    <<Vec2(0, ter.max_y)>>
      \o [i \in 1..Len(ter.x) |-> Vec2(ter.x[i], ter.y[i])]

\* MapIterator::new: the start point followed by the chained point iterator
MapPoints(ter) ==
    <<Vec2(0, ter.max_y)>>
      \o [i \in 1..Len(ter.x) |-> Vec2(ter.x[i], ter.y[i])]
      \o <<Vec2(ter.max_x, ter.max_y), Vec2(0, ter.max_y)>>

\* Terrain::iter_segments / MapIterator::next: consecutive pairs of points
iter_segments(ter) ==
    LET pts == MapPoints(ter)
    IN [i \in 1..(Len(pts) - 1) |-> <<pts[i], pts[i + 1]>>]

\* MapIterator::new as an iterator: the point it starts from and the points
\* its chained iterator has yet to give
map_iterator_new(ter) ==
    [previous_point |-> Head(MapPoints(ter)), map_iter |-> Tail(MapPoints(ter))]

\* next that does not move previous_point on
map_iterator_next_keepsPrevious(self) ==
    IF self.map_iter = <<>>
    THEN [some |-> FALSE, segment |-> <<>>,
          previous_point |-> self.previous_point, map_iter |-> self.map_iter]
    ELSE [some |-> TRUE,
          segment |-> <<self.previous_point, Head(self.map_iter)>>,
          previous_point |-> self.previous_point,
          map_iter |-> Tail(self.map_iter)]

\* MapIterator::next: None once the chained iterator is exhausted (`?`),
\* else the segment from previous_point to the next point
map_iterator_next(self) ==
    IF self.map_iter = <<>>
    THEN [some |-> FALSE, segment |-> <<>>,
          previous_point |-> self.previous_point, map_iter |-> self.map_iter]
    ELSE [some |-> TRUE,
          segment |-> <<self.previous_point, Head(self.map_iter)>>,
          previous_point |-> Head(self.map_iter),
          map_iter |-> Tail(self.map_iter)]

\* the summed lengths of the first k segments ("dist += distance(..)")
RECURSIVE dist_before(_, _)
dist_before(segs, k) ==
    IF k = 0 THEN 0
    ELSE dist_before(segs, k - 1) + distance(segs[k][1], segs[k][2])

\* CollisionChecker::target_from_terrain: 0 when there is no flat segment
RECURSIVE first_flat(_, _)
first_flat(segs, i) ==
    IF i > Len(segs) THEN 0
    ELSE IF segs[i][1].y = segs[i][2].y THEN i
    ELSE first_flat(segs, i + 1)

target_from_terrain(ter) ==
    WithValue(iter_segments(ter), LAMBDA segs :
    WithValue(first_flat(segs, 1), LAMBDA i :
      IF i = 0 THEN [some |-> FALSE, start |-> 0, end |-> 0]
      ELSE [some |-> TRUE,
            start |-> dist_before(segs, i - 1),
            end |-> dist_before(segs, i)]))

\* the first segment of the loop in check that the lander path meets, 0 if none
RECURSIVE first_hit(_, _, _)
first_hit(segs, path, i) ==
    IF i > Len(segs) THEN 0
    ELSE IF check_collision(segs[i], path).hit THEN i
    ELSE first_hit(segs, path, i + 1)

Landing(kind, err) == [kind |-> kind, err |-> err]

NoHit == [some |-> FALSE, x |-> 0, y |-> 0, landing |-> Landing("none", 0)]

\* colision_state that tests the vertical speed before the horizontal one
colision_state_verticalFirst(ter, target, terrain_segment, dist_to_point, current_state) ==
    LET distance_from_destination ==
            WithValue(<<target, dist_to_point>>, LAMBDA td :
              Min(Abs(td[1].start - td[2]), Abs(td[1].end - td[2])))
    IN IF terrain_segment[1].y # terrain_segment[2].y
       THEN Landing("WrongTerrain", distance_from_destination)
       ELSE IF terrain_segment[1].y >= ter.max_y
       THEN Landing("WrongTerrain", distance_from_destination)
       ELSE IF Abs(current_state.vy) > MAX_VERTICAL_SPEED * Scale
       THEN Landing("TooFastVertical",
                    Abs(current_state.vy) - MAX_VERTICAL_SPEED * Scale)
       ELSE IF Abs(current_state.vx) > MAX_HORIZONTAL_SPEED * Scale
       THEN Landing("TooFastHorizontal",
                    Abs(current_state.vx) - MAX_HORIZONTAL_SPEED * Scale)
       ELSE IF current_state.angle # 0
       THEN Landing("NotVertical", Abs(current_state.angle))
       ELSE Landing("Correct", 0)

\* classification of a hit on terrain_segment, "colision_state"
colision_state(ter, target, terrain_segment, dist_to_point, current_state) ==
    LET distance_from_destination ==
            WithValue(<<target, dist_to_point>>, LAMBDA td :
              Min(Abs(td[1].start - td[2]), Abs(td[1].end - td[2])))
    IN IF terrain_segment[1].y # terrain_segment[2].y
       THEN Landing("WrongTerrain", distance_from_destination)
       ELSE IF terrain_segment[1].y >= ter.max_y
       THEN Landing("WrongTerrain", distance_from_destination)
       ELSE IF Abs(current_state.vx) > MAX_HORIZONTAL_SPEED * Scale
       THEN Landing("TooFastHorizontal",
                    Abs(current_state.vx) - MAX_HORIZONTAL_SPEED * Scale)
       ELSE IF Abs(current_state.vy) > MAX_VERTICAL_SPEED * Scale
       THEN Landing("TooFastVertical",
                    Abs(current_state.vy) - MAX_VERTICAL_SPEED * Scale)
       ELSE IF current_state.angle # 0
       THEN Landing("NotVertical", Abs(current_state.angle))
       ELSE Landing("Correct", 0)

\* CollisionChecker::check
check(ter, previous_state, current_state) ==
    WithValue(iter_segments(ter), LAMBDA segs :
    WithValue(<<Vec2(previous_state.x, previous_state.y),
                Vec2(current_state.x, current_state.y)>>, LAMBDA lander_path_segment :
    WithValue(first_hit(segs, lander_path_segment, 1), LAMBDA i :
      IF i = 0 THEN NoHit
      ELSE
        WithValue(check_collision(segs[i], lander_path_segment), LAMBDA collision_point :
        WithValue(dist_before(segs, i - 1)
                    + distance(segs[i][1], collision_point), LAMBDA dist :
        WithValue(colision_state(ter, target_from_terrain(ter),
                                 segs[i], dist, current_state), LAMBDA landing :
          [some |-> TRUE, x |-> collision_point.x, y |-> collision_point.y,
           landing |-> landing]))))))

----------------------------------------------------------------------------
(* solver.rs: chromosomes and their accumulation *)

ANGLE_RANGE == [lo |-> -90, hi |-> 90]

THRUST_RANGE == [lo |-> 0, hi |-> 4]

ANGLE_STEP_RANGE == [lo |-> -15, hi |-> 15]

THRUST_STEP_RANGE == [lo |-> -1, hi |-> 1]

Chromosome(angles, thrusts) == [angles |-> angles, thrusts |-> thrusts]

\* clamp of solver.rs: max(start, min(end, v))
solver_clamp(v, range) == Max(range.lo, Min(range.hi, v))

\* the sum of a sequence of integers
RECURSIVE SumOf(_)
SumOf(seq) == IF seq = <<>> THEN 0 ELSE Head(seq) + SumOf(Tail(seq))

\* accumulated that clamps the plain sum of the deltas, not the running value
accumulated_clampsTheSum(initial_value, deltas, range) ==
    [k \in 1..Len(deltas) |->
        solver_clamp(initial_value + SumOf(SubSeq(deltas, 1, k)), range)]

\* accumulated: scan with a running value clamped after every addition
RECURSIVE accumulated(_, _, _)
accumulated(initial_value, deltas, range) ==
    IF deltas = <<>> THEN <<>>
    ELSE LET value == solver_clamp(initial_value + Head(deltas), range)
         IN <<value>> \o accumulated(value, Tail(deltas), range)

\* accumulated_population that accumulates from 0, not from the initial values
accumulated_population_of_fromZero(initial_angle, initial_thrust, pop) ==
    [i \in 1..Len(pop) |->
        Chromosome(accumulated(0, pop[i].angles, ANGLE_RANGE),
                   accumulated(0, pop[i].thrusts, THRUST_RANGE))]

accumulated_population_of(initial_angle, initial_thrust, pop) ==
    [i \in 1..Len(pop) |->
        Chromosome(accumulated(initial_angle, pop[i].angles, ANGLE_RANGE),
                   accumulated(initial_thrust, pop[i].thrusts, THRUST_RANGE))]

----------------------------------------------------------------------------
(* solver.rs: a generation of the genetic algorithm *)

\* an f64 in [0, 1] that is exact in binary: num / den with den a power of two
Ratio(num, den) == [num |-> num, den |-> den]

\* the cast to i32 without f64::round: num / den cut toward zero
round_truncates(num, den) ==
    IF num >= 0 THEN num \div den ELSE -((-num) \div den)

\* f64::round of num / den (den > 0): to the nearest, halves away from zero
round(num, den) ==
    IF num >= 0 THEN (2 * num + den) \div (2 * den)
    ELSE -((2 * (-num) + den) \div (2 * den))

\* crossed(a, b, i, clamp): the two blends of a and b at the cross point i
crossed(a, b, i, range) ==
    IF Len(a) # Len(b) THEN [ok |-> FALSE, x |-> <<>>, y |-> <<>>]
    ELSE IF ~(0 <= i.num /\ i.num <= i.den) THEN [ok |-> FALSE, x |-> <<>>, y |-> <<>>]
    ELSE [ok |-> TRUE,
          x |-> [k \in 1..Len(a) |->
                   solver_clamp(round(i.num * a[k] + (i.den - i.num) * b[k], i.den),
                                range)],
          y |-> [k \in 1..Len(a) |->
                   solver_clamp(round(i.num * b[k] + (i.den - i.num) * a[k], i.den),
                                range)]]

\* Chromosome::crossover
crossover(self, other, cross_point) ==
    LET angles  == crossed(self.angles, other.angles, cross_point, ANGLE_STEP_RANGE)
        thrusts == crossed(self.thrusts, other.thrusts, cross_point, THRUST_STEP_RANGE)
    IN IF ~angles.ok \/ ~thrusts.ok
       THEN [ok |-> FALSE, a |-> self, b |-> other]
       ELSE [ok |-> TRUE,
             a |-> Chromosome(angles.x, thrusts.x),
             b |-> Chromosome(angles.y, thrusts.y)]

\* the value a mutation draw leaves a gene pair untouched with
Keep == <<>>

\* Chromosome::mutate on the draws m: m[k] is Keep when the random number of
\* gene pair k was not below mutation_prob, else the new random <<angle, thrust>>
mutate(self, m) ==
    LET n == Min(Len(self.angles), Len(self.thrusts))
    IN Chromosome(
         [k \in 1..Len(self.angles) |->
            IF k <= n /\ m[k] # Keep
            THEN solver_clamp(m[k][1], ANGLE_STEP_RANGE) ELSE self.angles[k]],
         [k \in 1..Len(self.thrusts) |->
            IF k <= n /\ m[k] # Keep
            THEN solver_clamp(m[k][2], THRUST_STEP_RANGE) ELSE self.thrusts[k]])

\* the sort of choose_parents turned around: lowest fitness first
RECURSIVE ranking_ascending(_)
ranking_ascending(pairs) ==
    IF pairs = <<>> THEN <<>>
    ELSE LET rest == ranking_ascending(Tail(pairs))
             h    == Head(pairs)
             k    == Cardinality({j \in 1..Len(rest) : rest[j].fitness < h.fitness})
         IN SubSeq(rest, 1, k) \o <<h>> \o SubSeq(rest, k + 1, Len(rest))

\* sort_by(|a, b| a.total_cmp(b).reverse()): a stable sort, highest fitness
\* first, equal fitness in the order of the population
RECURSIVE ranking(_)
ranking(pairs) ==
    IF pairs = <<>> THEN <<>>
    ELSE LET rest == ranking(Tail(pairs))
             h    == Head(pairs)
             k    == Cardinality({j \in 1..Len(rest) : rest[j].fitness > h.fitness})
         IN SubSeq(rest, 1, k) \o <<h>> \o SubSeq(rest, k + 1, Len(rest))

\* Solver::choose_parents: zip stops at the shorter of population and fitness;
\* the slice ranking[..n_best] panics when n_best exceeds the ranking
choose_parents(pop, elitism, fitness) ==
    LET n      == Min(Len(pop), Len(fitness))
        ranked == ranking([i \in 1..n |-> [c |-> pop[i], fitness |-> fitness[i]]])
        n_best == (elitism.num * Len(pop)) \div elitism.den
    IN IF n_best > n THEN [ok |-> FALSE, parents |-> <<>>]
       ELSE [ok |-> TRUE, parents |-> [k \in 1..n_best |-> ranked[k].c]]

\* Solver::mate on the random draws of its n_children / 2 rounds: draws[r] has
\* the two parents choose_multiple picked, the cross point and the mutation
\* draws of the two children
RECURSIVE mate(_, _, _)
mate(parents, n_children, draws) ==
    IF n_children \div 2 = 0 THEN [ok |-> TRUE, pop |-> <<>>]
    ELSE IF Len(parents) < 2 THEN [ok |-> FALSE, pop |-> <<>>]
    ELSE LET before == mate(parents, n_children - 2, SubSeq(draws, 1, Len(draws) - 1))
             d      == draws[Len(draws)]
             c      == crossover(parents[d.parent1], parents[d.parent2], d.cross_point)
         IN IF ~before.ok \/ ~c.ok THEN [ok |-> FALSE, pop |-> <<>>]
            ELSE [ok |-> TRUE,
                  pop |-> before.pop \o <<mutate(c.a, d.m1), mutate(c.b, d.m2)>>]

\* Solver::new_generation on the solver's fields: the outcome and the
\* populations it leaves.  Both populations are assigned before
\* assert_eq!(len_population_before, self.population.len()).
\* Solver::try_new(settings) with the random population it draws
try_new(solver_settings, random_population) ==
    IF \/ solver_settings.elitism.num < 0
       \/ solver_settings.elitism.num > solver_settings.elitism.den
    THEN [result |-> "Err", population |-> <<>>, accumulated_population |-> <<>>]
    ELSE IF \/ solver_settings.mutation_prob.num < 0
            \/ solver_settings.mutation_prob.num > solver_settings.mutation_prob.den
    THEN [result |-> "Err", population |-> <<>>, accumulated_population |-> <<>>]
    ELSE [result |-> "Ok",
          population |-> random_population,
          accumulated_population |->
              accumulated_population_of(solver_settings.initial_angle,
                                        solver_settings.initial_thrust,
                                        random_population)]

new_generation(self, fitness, draws) ==
    LET len_population_before == Len(self.population)
        chosen == choose_parents(self.population, self.elitism, fitness)
    IN IF ~chosen.ok THEN [self EXCEPT !.result = "panic"]
       ELSE LET n_children == len_population_before - Len(chosen.parents)
                mated      == mate(self.population, n_children, draws)
            IN IF ~mated.ok THEN [self EXCEPT !.result = "Err"]
               ELSE LET new_pop == mated.pop \o chosen.parents
                    IN [self EXCEPT
                          !.population = new_pop,
                          !.accumulated_population =
                              accumulated_population_of(self.initial_angle,
                                                        self.initial_thrust, new_pop),
                          !.result = IF len_population_before = Len(new_pop)
                                     THEN "Ok" ELSE "panic"]

\* an f64 fitness: NaN, or the quotient num / den with den > 0
FitnessNaN == [nan |-> TRUE, num |-> 0, den |-> 1]

FitnessValue(num, den) == [nan |-> FALSE, num |-> num, den |-> den]

\* FitnessCalculator::new
FitnessCalculator(target, landing_bias) ==
    [target |-> target, landing_bias |-> landing_bias]

\* the closure dist_points of calculate_fitness
dist_points(self, dist) ==
    Min(Abs(self.target[1] - dist), Abs(self.target[2] - dist))

\* the value the fold with some_or_max leaves for a non-empty set of errors
some_or_max(errors) == CHOOSE m \in errors : \A e \in errors : e <= m

\* FitnessCalculator::calculate_fitness on landings whose errors are not
\* negative, as CollisionChecker::check reports them; the result is always
\* Some.  error / max and dist_points / dist_max are 0 / 0 = NaN when the
\* maximum is 0.
calculate_fitness(self, landing_results) ==
    LET n        == Len(landing_results)
        err_max  == some_or_max({ landing_results[i].err :
                       i \in { j \in 1..n : landing_results[j].kind \in
                          {"NotVertical", "TooFastHorizontal", "TooFastVertical"} } })
        dist_max == some_or_max({ dist_points(self, landing_results[i].err) :
                       i \in { j \in 1..n : landing_results[j].kind = "WrongTerrain" } })
        bias     == self.landing_bias
    IN [i \in 1..n |->
          LET result == landing_results[i]
          IN IF result.kind = "Correct" THEN FitnessValue(1, 1)
             ELSE IF result.kind = "WrongTerrain"
             THEN IF dist_max = 0 THEN FitnessNaN
                  ELSE FitnessValue((dist_max - dist_points(self, result.err)) * bias.num,
                                    dist_max * bias.den)
             ELSE IF err_max = 0 THEN FitnessNaN
                  ELSE FitnessValue(bias.num * err_max + (bias.den - bias.num) * result.err,
                                    bias.den * err_max)]

----------------------------------------------------------------------------
(* lander_runner.rs *)

Flying == [tag |-> "Flying", landing |-> Landing("none", 0)]

Landed(landing) == [tag |-> "Landed", landing |-> landing]

\* LanderStateCalculation::calculate_new_lander_state
calculate_new_lander_state(ter, lander, cmd) ==
    WithValue(<<lander, cmd>>, LAMBDA args :
    WithValue(PhysicsIterate(args[1], args[2]), LAMBDA r :
      IF ~r.ok
      THEN [ok |-> FALSE, lander |-> args[1], state |-> Flying]
      ELSE WithValue(check(ter, args[1], r.state), LAMBDA c :
             IF c.some
             THEN [ok |-> TRUE,
                   lander |-> [r.state EXCEPT !.x = c.x, !.y = c.y],
                   state |-> Landed(c.landing)]
             ELSE [ok |-> TRUE, lander |-> r.state, state |-> Flying])))

\* get_id_or_last without the fallback to the last gene
get_id_or_last_noLast(chromosome, index) ==
    [some |-> index < Len(chromosome.angles) /\ index < Len(chromosome.thrusts),
     a |-> index + 1, t |-> index + 1]

\* get_id_or_last: the positions (1-based) of the angle and the thrust gene
\* for a 0-based tick index, or none for an empty chromosome
get_id_or_last(chromosome, index) ==
    IF index < Len(chromosome.angles)
    THEN [some |-> index < Len(chromosome.thrusts),
          a |-> index + 1, t |-> index + 1]
    ELSE [some |-> Len(chromosome.angles) > 0 /\ Len(chromosome.thrusts) > 0,
          a |-> Len(chromosome.angles), t |-> Len(chromosome.thrusts)]

\* The body of the loop of LanderRunner::iterate for lander id, on the
\* runner state rs = [landers, states, pop, picked_any, err].
step_lander_body(ter, rs, id, iter) ==
    WithValue(get_id_or_last(rs.pop[id], iter), LAMBDA g :
       IF ~g.some
       THEN [rs EXCEPT !.picked_any = TRUE, !.err = "CommandGetError"]
       ELSE
         LET angle  == rs.pop[id].angles[g.a]
             thrust == rs.pop[id].thrusts[g.t]
         IN WithValue(
              calculate_new_lander_state(ter, rs.landers[id], Thrust(angle, thrust)),
              LAMBDA first :
                IF ~first.ok
                THEN [rs EXCEPT !.picked_any = TRUE, !.err = "SimulationError"]
                ELSE IF /\ first.state.tag = "Landed"
                        /\ first.state.landing.kind = "NotVertical"
                        /\ first.state.landing.err <= ANGLE_STEP
                THEN \* *angle = 0; recalculate for new angle
                     WithValue(
                       calculate_new_lander_state(ter, rs.landers[id], Thrust(0, thrust)),
                       LAMBDA second :
                         LET pop2 == [rs.pop EXCEPT ![id].angles[g.a] = 0]
                         IN IF ~second.ok
                            THEN [rs EXCEPT !.picked_any = TRUE, !.pop = pop2,
                                            !.err = "SimulationError"]
                            ELSE [rs EXCEPT !.picked_any = TRUE, !.pop = pop2,
                                            !.landers[id] = second.lander,
                                            !.states[id] = second.state])
                ELSE [rs EXCEPT !.picked_any = TRUE,
                                !.landers[id] = first.lander,
                                !.states[id] = first.state]))

\* the loop body without the test of the flight state
step_lander_everyLander(ter, rs, id, iter) == step_lander_body(ter, rs, id, iter)

\* "if let FlightState::Flying = *flight_state { ... }"
step_lander(ter, rs, id, iter) ==
    IF rs.states[id].tag = "Flying"
    THEN step_lander_body(ter, rs, id, iter)
    ELSE rs

\* the for loop over the landers in order; `?` leaves the loop at an error
RECURSIVE iterate_from(_, _, _, _)
iterate_from(ter, rs, id, iter) ==
    IF id > Len(rs.landers) \/ rs.err # "none" THEN rs
    ELSE WithValue(step_lander(ter, rs, id, iter),
                   LAMBDA next : iterate_from(ter, next, id + 1, iter))

\* iterate that ends the run once the chromosome has no gene of its own left
runner_iterate_stopsAtLastGene(ter, ls, sts, pop, iter) ==
    IF Len(pop) > 0 /\ iter >= Len(pop[1].angles)
    THEN [landers |-> ls, states |-> sts, pop |-> pop,
          iteration_id |-> iter, status |-> "Finished"]
    ELSE WithValue(
           iterate_from(ter, [landers |-> ls, states |-> sts, pop |-> pop,
                              picked_any |-> FALSE, err |-> "none"], 1, iter),
           LAMBDA rs :
             [landers |-> rs.landers, states |-> rs.states, pop |-> rs.pop,
              iteration_id |-> IF rs.err = "none" /\ rs.picked_any
                               THEN iter + 1 ELSE iter,
              status |-> IF rs.err # "none" THEN rs.err
                         ELSE IF rs.picked_any THEN "InProgress" ELSE "Finished"])

\* iterate that says Finished in the call in which the last lander lands
runner_iterate_finishedAtLastLanding(ter, ls, sts, pop, iter) ==
    WithValue(
      iterate_from(ter, [landers |-> ls, states |-> sts, pop |-> pop,
                         picked_any |-> FALSE, err |-> "none"], 1, iter),
      LAMBDA rs :
        [landers |-> rs.landers, states |-> rs.states, pop |-> rs.pop,
         iteration_id |-> IF rs.err = "none" /\ rs.picked_any
                          THEN iter + 1 ELSE iter,
         status |-> IF rs.err # "none" THEN rs.err
                    ELSE IF \E i \in 1..Len(rs.states) : rs.states[i].tag = "Flying"
                    THEN "InProgress" ELSE "Finished"])

\* LanderRunner::iterate(population)
runner_iterate(ter, ls, sts, pop, iter) ==
    WithValue(
      iterate_from(ter, [landers |-> ls, states |-> sts, pop |-> pop,
                         picked_any |-> FALSE, err |-> "none"], 1, iter),
      LAMBDA rs :
        [landers |-> rs.landers, states |-> rs.states, pop |-> rs.pop,
         iteration_id |-> IF rs.err = "none" /\ rs.picked_any
                          THEN iter + 1 ELSE iter,
         status |-> IF rs.err # "none" THEN rs.err
                    ELSE IF rs.picked_any THEN "InProgress" ELSE "Finished"])

----------------------------------------------------------------------------
(* app.rs *)

\* histories that start empty
initial_histories_empty(n, state) ==
    [i \in 1..n |-> <<>>]

\* LanderHistory::with_initial_state for every lander
initial_histories(n, state) ==
    [i \in 1..n |-> <<state>>]

\* App::save_last_lander_states_in_flight: the landers still Flying
save_last_lander_states_in_flight(histories, ls, sts) ==
    [i \in 1..Len(histories) |->
        IF i <= Len(ls) /\ i <= Len(sts) /\ sts[i].tag = "Flying"
        THEN Append(histories[i], ls[i]) ELSE histories[i]]

\* App::save_last_lander_states: every lander
save_last_lander_states(histories, ls) ==
    [i \in 1..Len(histories) |->
        IF i <= Len(ls) THEN Append(histories[i], ls[i]) ELSE histories[i]]

\* App::run on the runner fields rs = [landers, states, pop, iteration_id]
\* and the flight histories: iterate is called until it returns anything but
\* InProgress
RECURSIVE app_run(_, _, _)
app_run(ter, rs, histories) ==
    WithValue(runner_iterate(ter, rs.landers, rs.states, rs.pop, rs.iteration_id),
              LAMBDA r :
        IF r.status = "InProgress"
        THEN app_run(ter, r,
                     save_last_lander_states_in_flight(histories, r.landers, r.states))
        ELSE [landers |-> r.landers, states |-> r.states, pop |-> r.pop,
              iteration_id |-> r.iteration_id, status |-> r.status,
              flight_histories |-> save_last_lander_states(histories, r.landers)])

\* the order f64::total_cmp gives two fitness values; the sign of the NaN a
\* 0 / 0 leaves depends on the target, so nan_above says on which side of the
\* numbers it sorts
fitness_less(a, b, nan_above) ==
    IF a.nan /\ b.nan THEN FALSE
    ELSE IF a.nan THEN ~nan_above
    ELSE IF b.nan THEN nan_above
    ELSE a.num * b.den < b.num * a.den

\* the fitness passed to new_generation, each value as its place in the order
\* of total_cmp (equal values share a place): the sort of choose_parents
\* uses nothing but that order
fitness_order(fitness, nan_above) ==
    [i \in 1..Len(fitness) |->
        Cardinality({ j \in 1..Len(fitness) :
                        fitness_less(fitness[j], fitness[i], nan_above) })]

\* next_population that counts the generation before it looks at the landers
next_population_countsFirst(self, draws, nan_above) ==
    [self EXCEPT !.population_id = self.population_id + 1, !.result = "Err"]

\* App::next_population on the fields of the App, with the random draws of
\* mate; result is "Ok", "Err" or "panic" (the assert_eq! of new_generation)
next_population(self, draws, nan_above) ==
    IF \E i \in 1..Len(self.states) : self.states[i].tag # "Landed"
    THEN [self EXCEPT !.result = "Err"]
    ELSE WithValue(calculate_fitness(self.fitness_calculator,
                      [i \in 1..Len(self.states) |-> self.states[i].landing]),
                   LAMBDA fitness :
         WithValue(new_generation(
                      [population |-> self.population,
                       accumulated_population |-> self.accumulated_population,
                       elitism |-> self.elitism,
                       initial_angle |-> self.initial_lander_state.angle,
                       initial_thrust |-> self.initial_lander_state.power,
                       result |-> "none"],
                      fitness_order(fitness, nan_above), draws),
                   LAMBDA solver :
            IF solver.result # "Ok"
            THEN [self EXCEPT !.population = solver.population,
                              !.accumulated_population = solver.accumulated_population,
                              !.result = solver.result]
            ELSE [self EXCEPT
                    !.population = solver.population,
                    !.accumulated_population = solver.accumulated_population,
                    \* LanderRunner::reinitialize
                    !.states = [i \in 1..Len(self.landers) |-> Flying],
                    !.landers = [i \in 1..Len(self.landers) |->
                                    self.initial_lander_state],
                    !.iteration_id = 0,
                    !.flight_histories =
                        initial_histories(Len(self.flight_histories),
                                          self.initial_lander_state),
                    !.current_fitness = fitness,
                    !.population_id = self.population_id + 1,
                    !.result = "Ok"]))

----------------------------------------------------------------------------
(* Scenarios *)

\* a sequence of map units as grid steps
Units(seq) == [i \in 1..Len(seq) |-> seq[i] * Scale]

\* a valley with the pad at its bottom
TerrainValley ==
    Terrain(30 * Scale, 24 * Scale, Units(<<0, 8, 22, 30>>), Units(<<8, 2, 2, 8>>))

\* a notch followed by a mesa whose flat top is the only flat stretch
TerrainMesa ==
    Terrain(30 * Scale, 24 * Scale,
            Units(<<0, 6, 12, 26, 30>>), Units(<<12, 4, 12, 12, 9>>))

Terrains == {TerrainValley, TerrainMesa}

\* a slope from wall to wall: no two consecutive points at the same height
TerrainSlope ==
    Terrain(30 * Scale, 24 * Scale, Units(<<0, 12, 30>>), Units(<<3, 7, 12>>))

CheckerTerrains == Terrains \cup {TerrainSlope}

\* strictly inside the closed map polygon, for a terrain whose polyline runs
\* from the left wall (x = 0) to the right wall (x = max_x) with increasing x
InsideMap(ter, pos) ==
    /\ 0 < pos.x /\ pos.x < ter.max_x
    /\ pos.y < ter.max_y
    /\ \A i \in 1..(Len(ter.x) - 1) :
          (ter.x[i] <= pos.x /\ pos.x <= ter.x[i + 1]) =>
              cross(Vec2(ter.x[i + 1] - ter.x[i], ter.y[i + 1] - ter.y[i]),
                    Vec2(pos.x - ter.x[i], pos.y - ter.y[i])) > 0

PhysicsIdle ==
    /\ ph_lander = LanderState(0, 0, 0, 0, 0, 0, 0)
    /\ ph_prev = ph_lander
    /\ ph_cmd = Thrust(0, 0)
    /\ ph_result = "none"
    /\ ph_steps = 0
    /\ ph_fuel0 = 0
    /\ ph_burn = 0

CollisionIdle ==
    /\ cc_a = <<Vec2(0, 0), Vec2(0, 0)>>
    /\ cc_b = cc_a
    /\ cc_result = NoCollision
    /\ cc_done = FALSE

CheckerIdle ==
    /\ ck_terrain = TerrainValley
    /\ ck_prev = LanderState(0, 0, 0, 0, 0, 0, 0)
    /\ ck_cur = ck_prev
    /\ ck_result = NoHit
    /\ ck_done = FALSE
    /\ ck_built = "none"
    /\ ck_target = [start |-> 0, end |-> 0]
    /\ CollisionIdle

CrossedIdle ==
    /\ cr_a = <<>>
    /\ cr_b = <<>>
    /\ cr_i = Ratio(0, 1)
    /\ cr_range = ANGLE_STEP_RANGE
    /\ cr_result = [ok |-> FALSE, x |-> <<>>, y |-> <<>>]
    /\ cr_swapped = cr_result
    /\ cr_done = FALSE

MapIteratorIdle ==
    /\ mi_terrain = TerrainValley
    /\ previous_point = Vec2(0, 0)
    /\ map_iter = <<>>
    /\ mi_yielded = <<>>
    /\ mi_last = "none"

\* the fields of the App outside the solver and the runner, before any call
AppFieldsIdle ==
    /\ fitness_calculator = [target |-> <<0, 0>>, landing_bias |-> Ratio(0, 1)]
    /\ current_fitness = <<>>
    /\ flight_histories = <<>>
    /\ population_id = 0
    /\ app_call = "none"
    /\ app_result = "none"

AppIdle ==
    /\ AppFieldsIdle
    /\ terrain = TerrainValley
    /\ initial_lander_state = LanderState(0, 0, 0, 0, 0, 0, 0)
    /\ settings = [population_size |-> 0, chromosome_size |-> 0,
                   elitism |-> Ratio(0, 1), mutation_prob |-> Ratio(0, 1)]
    /\ population = <<>>
    /\ accumulated_population = <<>>
    /\ population_before = <<>>
    /\ fitness_in = <<>>
    /\ solver_result = "none"
    /\ generation = 0
    /\ landers = <<>>
    /\ states = <<>>
    /\ iteration_id = 0
    /\ exec_status = "none"

----------------------------------------------------------------------------
(* Physics.iterate on drawn inputs *)

PhysFuels == {0, 1, 3, 9}

PhysAngles == {-90, -8, 0, 30}

PhysPowers == {0, 2, 4}

CmdAngles == {-91, -90, -20, 0, 7, 90, 91}

CmdPowers == {-1, 0, 1, 3, 4, 5}

InitPhysics ==
    /\ ph_lander \in { LanderState(20 * Scale, 20 * Scale, 0, 0, f, a, p) :
                         f \in PhysFuels, a \in PhysAngles, p \in PhysPowers }
    /\ ph_prev = ph_lander
    /\ ph_cmd = Thrust(0, 0)
    /\ ph_result = "none"
    /\ ph_steps = 0
    /\ ph_fuel0 = ph_lander.fuel
    /\ ph_burn = 0
    /\ CheckerIdle
    /\ AppIdle
    /\ CrossedIdle
    /\ MapIteratorIdle

\* one call Physics::default().iterate(lander, cmd); a failed call leaves the
\* caller with the state it had
PhysicsStep ==
    /\ ph_steps < MaxPhysSteps
    /\ \E a \in CmdAngles, p \in CmdPowers :
         LET r == PhysicsIterate(ph_lander, Thrust(a, p))
         IN /\ ph_cmd' = Thrust(a, p)
            /\ ph_prev' = ph_lander
            /\ ph_result' = IF r.ok THEN "Ok" ELSE r.err
            /\ ph_lander' = r.state
            /\ ph_burn' = IF r.ok THEN ph_burn + r.state.power ELSE ph_burn
    /\ ph_steps' = ph_steps + 1
    /\ UNCHANGED <<ph_fuel0, ck_vars, cc_vars, scenario_vars, solver_vars,
                   runner_vars, app_vars, cr_vars, mi_vars>>

NextPhysics == PhysicsStep

SpecPhysics == InitPhysics /\ [][NextPhysics]_vars

----------------------------------------------------------------------------
(* CollisionChecker.check on drawn inputs *)

\* positions and displacements in map units
CheckFrom == {<<15, 16>>, <<1, 20>>, <<29, 20>>, <<15, 23>>, <<20, 13>>, <<2, 22>>}

CheckMove == {<<0, -1>>, <<-2, 0>>, <<2, 0>>, <<0, 2>>, <<0, -14>>,
              <<2, -2>>, <<-3, 3>>, <<0, 1>>}

CheckVx == {-30, -5, 20}

CheckVy == {-45, -40, -10}

CheckAngle == {-10, 0, 40}

InitChecker ==
    /\ ck_terrain \in CheckerTerrains
    /\ \E from \in CheckFrom :
         /\ ck_prev = LanderState(from[1] * Scale, from[2] * Scale, 0, 0, 0, 0, 0)
         /\ \E move \in CheckMove, vx \in CheckVx, vy \in CheckVy, a \in CheckAngle :
              ck_cur = LanderState((from[1] + move[1]) * Scale,
                                   (from[2] + move[2]) * Scale,
                                   vx * Scale, vy * Scale, 0, a, 0)
    /\ ck_result = NoHit
    /\ ck_done = FALSE
    /\ ck_built = "none"
    /\ ck_target = [start |-> 0, end |-> 0]
    /\ CollisionIdle
    /\ PhysicsIdle
    /\ CrossedIdle
    /\ MapIteratorIdle
    /\ AppIdle

\* CollisionChecker::try_with_default_limits(terrain)
CheckerTryNew ==
    /\ ck_built = "none"
    /\ \E t \in {target_from_terrain(ck_terrain)} :
         IF t.some
         THEN /\ ck_built' = "Some"
              /\ ck_target' = [start |-> t.start, end |-> t.end]
         ELSE /\ ck_built' = "None"
              /\ UNCHANGED ck_target
    /\ UNCHANGED <<ck_terrain, ck_prev, ck_cur, ck_result, ck_done,
                   ph_vars, cc_vars, scenario_vars, solver_vars, runner_vars, app_vars, cr_vars, mi_vars>>

\* one call CollisionChecker::check(previous_state, current_state) on the
\* checker that try_new returned
CheckStep ==
    /\ ck_built = "Some"
    /\ ~ck_done
    /\ ck_result' = check(ck_terrain, ck_prev, ck_cur)
    /\ ck_done' = TRUE
    /\ UNCHANGED <<ck_terrain, ck_prev, ck_cur, ck_built, ck_target,
                   ph_vars, cc_vars, scenario_vars, solver_vars, runner_vars, app_vars, cr_vars, mi_vars>>

NextChecker == CheckerTryNew \/ CheckStep

SpecChecker == InitChecker /\ [][NextChecker]_vars

----------------------------------------------------------------------------
(* check_collision on drawn pairs of segments *)

\* the end points of the drawn segments: whole map units 0..MaxCoord
CollisionPoints ==
    { Vec2(x * Scale, y * Scale) : x \in 0..MaxCoord, y \in 0..MaxCoord }

\* segments of positive length
CollisionSegments ==
    { seg \in CollisionPoints \X CollisionPoints : seg[1] # seg[2] }

InitCollision ==
    /\ cc_a \in CollisionSegments
    /\ cc_b \in CollisionSegments
    /\ cc_result = NoCollision
    /\ cc_done = FALSE
    /\ ck_terrain = TerrainValley
    /\ ck_prev = LanderState(0, 0, 0, 0, 0, 0, 0)
    /\ ck_cur = ck_prev
    /\ ck_result = NoHit
    /\ ck_done = FALSE
    /\ ck_built = "none"
    /\ ck_target = [start |-> 0, end |-> 0]
    /\ PhysicsIdle
    /\ CrossedIdle
    /\ MapIteratorIdle
    /\ AppIdle

\* one call check_collision(segment_a, segment_b)
CollisionStep ==
    /\ ~cc_done
    /\ cc_result' = check_collision(cc_a, cc_b)
    /\ cc_done' = TRUE
    /\ UNCHANGED <<cc_a, cc_b, ck_vars, ph_vars, scenario_vars, solver_vars,
                   runner_vars, app_vars, cr_vars, mi_vars>>

NextCollision == CollisionStep

SpecCollision == InitCollision /\ [][NextCollision]_vars

----------------------------------------------------------------------------
(* A generation simulated by the LanderRunner *)

\* delta genes <<angle, thrust>> the initial population is drawn from
RunnerGenes == {<<0, 0>>, <<-15, 1>>, <<15, 1>>}

\* sample chromosomes: a gene repeated, or alternating with its mirror image
RunnerChromosomes(size) ==
    { Chromosome([k \in 1..size |-> IF k % 2 = 1 THEN g[1] ELSE m * g[1]],
                 [k \in 1..size |-> g[2]]) : g \in RunnerGenes, m \in {-1, 1} }

\* scenario landers, in grid steps: position, velocity, fuel, angle, power
InitialLanders ==
    { LanderState(300, 320, 0, 0, 12, 0, 0),       \* a drop from the middle
      LanderState(300, 320, 0, 0, 12, 45, 3),      \* tilted, engine running
      LanderState(300, 320, 0, -780, 12, 0, 0),    \* falling fast
      LanderState(260, 260, 420, 0, 0, 0, 0),      \* drifting fast, no fuel
      LanderState(465, 260, 144, -27, 2, 0, 0),    \* low over the mesa edge
      LanderState(465, 260, 144, -27, 2, 30, 0),   \* the same, tilted
      LanderState(300, 440, 0, 100, 12, 0, 0),     \* rising under the ceiling
      LanderState(20, 400, -40, 0, 12, 0, 0),      \* next to the left wall
      LanderState(580, 400, 30, 40, 12, -30, 1),   \* next to the right wall
      LanderState(580, 200, -100, 97, 0, 0, 0) }   \* rising towards the hillside

\* the populations of a run: the first two chromosomes drawn freely, every
\* further lander flying the chromosome of the lander two places before it
RunnerPopulations(size) ==
    { p \in [1..RunnerLanders -> RunnerChromosomes(size)] :
        \A i \in 3..RunnerLanders : p[i] = p[i - 2] }

InitRunner ==
    /\ terrain \in Terrains
    /\ initial_lander_state \in InitialLanders
    /\ \E size \in 1..RunnerChromosome :
         /\ settings = [population_size |-> RunnerLanders, chromosome_size |-> size,
                        elitism |-> Ratio(0, 1), mutation_prob |-> Ratio(0, 1)]
         /\ population \in RunnerPopulations(size)
    /\ accumulated_population =
          accumulated_population_of(initial_lander_state.angle,
                                    initial_lander_state.power, population)
    /\ population_before = <<>>
    /\ fitness_in = <<>>
    /\ solver_result = "Ok"
    /\ generation = 0
    /\ landers = [i \in 1..RunnerLanders |-> initial_lander_state]
    /\ states = [i \in 1..RunnerLanders |-> Flying]
    /\ iteration_id = 0
    /\ exec_status = "none"
    /\ PhysicsIdle
    /\ CrossedIdle
    /\ MapIteratorIdle
    /\ CheckerIdle
    /\ AppFieldsIdle

\* One pass of the loop of App::run: a call of LanderRunner::iterate on the
\* accumulated population.  The loop goes on while the call says InProgress.
RunnerIterate ==
    /\ exec_status \in {"none", "InProgress"}
    /\ iteration_id < MaxIter
    /\ \E r \in {runner_iterate(terrain, landers, states,
                                accumulated_population, iteration_id)} :
          /\ landers' = r.landers
          /\ states' = r.states
          /\ accumulated_population' = r.pop
          /\ iteration_id' = r.iteration_id
          /\ exec_status' = r.status
    /\ UNCHANGED <<population, population_before, fitness_in, solver_result,
                   generation, scenario_vars, ph_vars, ck_vars, cc_vars, app_vars, cr_vars, mi_vars>>

NextRunner == RunnerIterate

SpecRunner == InitRunner /\ [][NextRunner]_vars

\* the loop of App::run keeps calling iterate while the call says InProgress
FairSpecRunner == SpecRunner /\ WF_vars(RunnerIterate)

----------------------------------------------------------------------------
(* Solver.try_new on drawn settings and random genes *)

TryNewPopulationSizes == {0, 1, 2}

TryNewChromosomeSizes == {0, 1, 2}

\* values of Elitism and MutationProb in a settings file
TryNewRatios == {Ratio(-1, 2), Ratio(0, 1), Ratio(1, 2), Ratio(1, 1), Ratio(3, 2)}

\* <<angle, power>> of the scenario lander
TryNewInitials == {<<0, 0>>, <<0, 4>>, <<85, 3>>, <<-90, 0>>}

\* delta genes <<angle, thrust>>: the ends and the middle of the step ranges
TryNewGenes == {<<-15, -1>>, <<0, 0>>, <<15, 1>>}

\* the populations (0..population_size).map(|_| Chromosome::new_random(size))
RandomPopulations(n, size) ==
    { [i \in 1..n |-> Chromosome([k \in 1..size |-> c[i][k][1]],
                                 [k \in 1..size |-> c[i][k][2]])] :
        c \in [1..n -> [1..size -> TryNewGenes]] }

\* before construction: the parsed scenario and settings
InitConstruct ==
    /\ terrain = TerrainValley
    /\ \E i \in TryNewInitials :
         initial_lander_state = LanderState(300, 320, 0, 0, 12, i[1], i[2])
    /\ \E n \in TryNewPopulationSizes, size \in TryNewChromosomeSizes,
          e \in TryNewRatios, m \in TryNewRatios :
         settings = [population_size |-> n, chromosome_size |-> size,
                     elitism |-> e, mutation_prob |-> m]
    /\ population = <<>>
    /\ accumulated_population = <<>>
    /\ population_before = <<>>
    /\ fitness_in = <<>>
    /\ solver_result = "none"
    /\ generation = 0
    /\ landers = <<>>
    /\ states = <<>>
    /\ iteration_id = 0
    /\ exec_status = "none"
    /\ PhysicsIdle
    /\ CrossedIdle
    /\ MapIteratorIdle
    /\ CheckerIdle
    /\ AppFieldsIdle

\* one call Solver::try_new(SolverSettings { .. }) as App::try_new makes it
SolverTryNew ==
    /\ solver_result = "none"
    /\ \E random_population \in RandomPopulations(settings.population_size,
                                                  settings.chromosome_size) :
       \E r \in {try_new([population_size |-> settings.population_size,
                           chromosome_size |-> settings.chromosome_size,
                           initial_angle |-> initial_lander_state.angle,
                           initial_thrust |-> initial_lander_state.power,
                           elitism |-> settings.elitism,
                           mutation_prob |-> settings.mutation_prob],
                          random_population)} :
          /\ solver_result' = r.result
          /\ population' = r.population
          /\ accumulated_population' = r.accumulated_population
    /\ UNCHANGED <<population_before, fitness_in, generation, scenario_vars,
                   runner_vars, ph_vars, ck_vars, cc_vars, app_vars, cr_vars, mi_vars>>

NextConstruct == SolverTryNew

SpecConstruct == InitConstruct /\ [][NextConstruct]_vars

----------------------------------------------------------------------------
(* Solver.new_generation on drawn populations, fitness and random draws *)

\* population_size ranges over 2..MaxPop
MaxPop == 3

SolverChromosomeSizes == {1, 2}

\* delta genes <<angle, thrust>> as Chromosome::new_random draws them
SolverGenes == <<(<<-15, 1>>), (<<0, 0>>), (<<10, -1>>)>>

\* the sample chromosome built on gene j
SolverChromosome(size, j) ==
    Chromosome([k \in 1..size |-> IF k = 1 THEN SolverGenes[j][1] ELSE -SolverGenes[j][1]],
               [k \in 1..size |-> SolverGenes[j][2]])

\* populations of n sample chromosomes, neighbours different
SolverPopulations(n, size) ==
    { [i \in 1..n |-> SolverChromosome(size, ((i + r) % Len(SolverGenes)) + 1)] :
        r \in {0, 1} }

Elitisms == {Ratio(0, 1), Ratio(1, 2), Ratio(3, 4), Ratio(1, 1)}

MutationProbs == {Ratio(0, 1), Ratio(1, 2), Ratio(1, 1)}

\* values of gen_range(0f64..1f64) for the cross point
CrossPoints == {Ratio(0, 1), Ratio(1, 2)}

\* values of <<new_random_angle(), new_random_thrust()>> for a mutated gene
MutationGenes == {<<7, 0>>}

\* fitness vectors: all equal, a single best or a single worst chromosome
FitnessVectors(n) ==
    { f \in [1..n -> {0, 1}] :
        \/ Cardinality({i \in 1..n : f[i] = 1}) <= 1
        \/ Cardinality({i \in 1..n : f[i] = 0}) <= 1 }

\* the mutation draws of one chromosome: no gene pair is replaced when
\* mutation_prob = 0, every one when mutation_prob = 1; in between the draws
\* taken are no replacement and the replacement of the first gene pair
MutationDraws(size, mutation_prob) ==
    IF mutation_prob.num = 0 THEN {[k \in 1..size |-> Keep]}
    ELSE IF mutation_prob.num = mutation_prob.den THEN [1..size -> MutationGenes]
    ELSE { m \in [1..size -> {Keep} \cup MutationGenes] :
             \A k \in 2..size : m[k] = Keep }

\* the random draws of one round of mate: choose_multiple(2) gives two
\* different parents in a random order
RoundDraws(n, size, mutation_prob) ==
    { [parent1 |-> p[1], parent2 |-> p[2], cross_point |-> i, m1 |-> m1, m2 |-> m2] :
        p \in {q \in (1..n) \X (1..n) : q[1] # q[2]},
        i \in CrossPoints,
        m1 \in MutationDraws(size, mutation_prob),
        m2 \in MutationDraws(size, mutation_prob) }

\* the number of rounds of mate in a new_generation call
MateRounds(n, elitism) == (n - (elitism.num * n) \div elitism.den) \div 2

\* the draws of the rounds after the first: the first two parents in either
\* order, both children with the same mutation draws
LaterRoundDraws(n, size, mutation_prob) ==
    { d \in RoundDraws(n, size, mutation_prob) :
        {d.parent1, d.parent2} = {1, 2} /\ d.m1 = d.m2 }

\* the random draws of the rounds of one mate call
MateDraws(n, size, elitism, mutation_prob) ==
    { [r \in 1..MateRounds(n, elitism) |-> IF r = 1 THEN first ELSE later] :
        first \in RoundDraws(n, size, mutation_prob),
        later \in LaterRoundDraws(n, size, mutation_prob) }

\* Solver::try_new leaves population_size chromosomes of chromosome_size random
\* delta genes; later generations leave blends and mutations of them
InitSolver ==
    /\ terrain = TerrainValley
    /\ initial_lander_state = LanderState(300, 320, 0, 0, 12, 0, 0)
    /\ \E n \in 2..MaxPop, size \in SolverChromosomeSizes :
         /\ \E e \in Elitisms, m \in MutationProbs :
              settings = [population_size |-> n, chromosome_size |-> size,
                          elitism |-> e, mutation_prob |-> m]
         /\ population \in SolverPopulations(n, size)
    /\ accumulated_population =
          accumulated_population_of(initial_lander_state.angle,
                                    initial_lander_state.power, population)
    /\ population_before = <<>>
    /\ fitness_in = <<>>
    /\ solver_result = "none"
    /\ generation = 0
    /\ landers = <<>>
    /\ states = <<>>
    /\ iteration_id = 0
    /\ exec_status = "none"
    /\ PhysicsIdle
    /\ CrossedIdle
    /\ MapIteratorIdle
    /\ CheckerIdle
    /\ AppFieldsIdle

\* one call Solver::new_generation(fitness) with one fitness value per
\* chromosome, as App::run passes it
NewGeneration ==
    /\ solver_result = "none"
    /\ \E fitness \in FitnessVectors(Len(population)) :
       \E draws \in MateDraws(Len(population), settings.chromosome_size,
                            settings.elitism, settings.mutation_prob) :
         LET r == new_generation(
                    [population |-> population,
                     accumulated_population |-> accumulated_population,
                     elitism |-> settings.elitism,
                     initial_angle |-> initial_lander_state.angle,
                     initial_thrust |-> initial_lander_state.power,
                     result |-> "none"],
                    fitness, draws)
         IN /\ population_before' = population
            /\ fitness_in' = fitness
            /\ population' = r.population
            /\ accumulated_population' = r.accumulated_population
            /\ solver_result' = r.result
    /\ generation' = generation + 1
    /\ UNCHANGED <<scenario_vars, runner_vars, ph_vars, ck_vars, cc_vars, app_vars, cr_vars, mi_vars>>

NextSolver == NewGeneration

SpecSolver == InitSolver /\ [][NextSolver]_vars

\* fitness sequences one shorter and one longer than the population, as a
\* caller of the public new_generation can pass them
MismatchedFitnessVectors(n) ==
    [1..(n - 1) -> {0, 1}] \cup { f \in [1..(n + 1) -> {0, 1}] : f[n + 1] = 1 }

\* one call Solver::new_generation(fitness) with a fitness sequence whose
\* length differs from the population's
NewGenerationMismatched ==
    /\ solver_result = "none"
    /\ \E fitness \in MismatchedFitnessVectors(Len(population)) :
       \E draws \in MateDraws(Len(population), settings.chromosome_size,
                            settings.elitism, settings.mutation_prob) :
       \E r \in {new_generation(
                    [population |-> population,
                     accumulated_population |-> accumulated_population,
                     elitism |-> settings.elitism,
                     initial_angle |-> initial_lander_state.angle,
                     initial_thrust |-> initial_lander_state.power,
                     result |-> "none"],
                    fitness, draws)} :
            /\ population_before' = population
            /\ fitness_in' = fitness
            /\ population' = r.population
            /\ accumulated_population' = r.accumulated_population
            /\ solver_result' = r.result
    /\ generation' = generation + 1
    /\ UNCHANGED <<scenario_vars, runner_vars, ph_vars, ck_vars, cc_vars, app_vars, cr_vars, mi_vars>>

NextSolverMismatched == NewGenerationMismatched

SpecSolverMismatched == InitSolver /\ [][NextSolverMismatched]_vars

----------------------------------------------------------------------------
(* FitnessCalculator.calculate_fitness on drawn terminal outcomes *)

\* values of LandingBias in a settings file
LandingBiases == {Ratio(0, 1), Ratio(1, 2), Ratio(1, 1)}

\* the target of the calculator, as distances along the polygon
FitnessTarget == <<300, 580>>

\* terminal outcomes: angle errors in degrees, speed errors and distances in
\* grid steps; the first WrongTerrain landing is at the start of the target
FitnessLandings ==
    { Landing("Correct", 0),
      Landing("NotVertical", 15), Landing("NotVertical", 30),
      Landing("TooFastVertical", 5 * Scale),
      Landing("TooFastHorizontal", 10 * Scale),
      Landing("WrongTerrain", 300), Landing("WrongTerrain", 240) }

\* a finished run: every lander Landed with a drawn outcome
InitFitness ==
    /\ terrain = TerrainValley
    /\ initial_lander_state = LanderState(300, 320, 0, 0, 12, 0, 0)
    /\ \E n \in 1..MaxLandings :
         /\ states \in [1..n -> {Landed(l) : l \in FitnessLandings}]
         /\ landers = [i \in 1..n |-> initial_lander_state]
         /\ settings = [population_size |-> n, chromosome_size |-> 0,
                        elitism |-> Ratio(0, 1), mutation_prob |-> Ratio(0, 1)]
    /\ \E bias \in LandingBiases :
         fitness_calculator = FitnessCalculator(FitnessTarget, bias)
    /\ current_fitness = <<>>
    /\ flight_histories = <<>>
    /\ population_id = 0
    /\ app_call = "none"
    /\ app_result = "none"
    /\ population = <<>>
    /\ accumulated_population = <<>>
    /\ population_before = <<>>
    /\ fitness_in = <<>>
    /\ solver_result = "none"
    /\ generation = 0
    /\ iteration_id = 0
    /\ exec_status = "Finished"
    /\ PhysicsIdle
    /\ CrossedIdle
    /\ MapIteratorIdle
    /\ CheckerIdle

\* one call FitnessCalculator::calculate_fitness(landing_results) on the
\* landings of the flight states
CalculateFitness ==
    /\ app_call = "none"
    /\ current_fitness' =
          calculate_fitness(fitness_calculator,
                            [i \in 1..Len(states) |-> states[i].landing])
    /\ app_call' = "calculate_fitness"
    /\ app_result' = "Some"
    /\ UNCHANGED <<fitness_calculator, flight_histories, population_id,
                   scenario_vars, solver_vars, runner_vars, ph_vars, ck_vars, cc_vars,
                   cr_vars, mi_vars>>

NextFitness == CalculateFitness

SpecFitness == InitFitness /\ [][NextFitness]_vars

----------------------------------------------------------------------------
(* The App driven through run and next_population *)

\* delta genes <<angle, thrust>> of the first population
AppGenes == << <<0, 0>>, <<-15, 1>>, <<15, 1>> >>

\* the chromosome that repeats gene j
AppChromosome(size, j) ==
    Chromosome([k \in 1..size |-> AppGenes[j][1]], [k \in 1..size |-> AppGenes[j][2]])

\* first populations, neighbours different
AppPopulations(n, size) ==
    { [i \in 1..n |-> AppChromosome(size, ((i + r) % Len(AppGenes)) + 1)] :
        r \in 0..(Len(AppGenes) - 1) }

\* settings Solver::try_new accepts: two children per generation, with and
\* without mutation and elites, and one child (population 2, elitism 0.5)
AppSettings ==
    { [population_size |-> 2, chromosome_size |-> size,
       elitism |-> Ratio(0, 1), mutation_prob |-> m] :
          size \in {1, 2}, m \in {Ratio(0, 1), Ratio(1, 2)} }
    \cup { [population_size |-> n, chromosome_size |-> 1,
            elitism |-> Ratio(1, 2), mutation_prob |-> Ratio(0, 1)] : n \in {2, 4} }

\* scenario landers inside both maps
AppLanders ==
    { LanderState(300, 320, 0, 0, 12, 45, 3),
      LanderState(580, 400, 30, 40, 12, -30, 1) }

\* values of LandingBias of the sessions
AppLandingBiases == {Ratio(0, 1), Ratio(1, 2)}

\* the scenarios of the sessions: each lander over each map, and a lander
\* low over the edge of the mesa, which a tilted lander reaches at 15 degrees
AppScenarios ==
    (Terrains \X AppLanders)
        \cup {<<TerrainMesa, LanderState(465, 260, 144, -27, 2, 0, 0)>>}

\* the App that App::try_new returns.  The target of the fitness calculator
\* is the range of distances along the polygon calculate_fitness compares
\* the WrongTerrain distances with.
InitApp ==
    /\ \E scenario \in AppScenarios :
         /\ terrain = scenario[1]
         /\ initial_lander_state = scenario[2]
    /\ settings \in AppSettings
    /\ population \in AppPopulations(settings.population_size, settings.chromosome_size)
    /\ accumulated_population =
          accumulated_population_of(initial_lander_state.angle,
                                    initial_lander_state.power, population)
    /\ population_before = <<>>
    /\ fitness_in = <<>>
    /\ solver_result = "Ok"
    /\ generation = 0
    /\ landers = [i \in 1..settings.population_size |-> initial_lander_state]
    /\ states = [i \in 1..settings.population_size |-> Flying]
    /\ iteration_id = 0
    /\ exec_status = "none"
    /\ \E bias \in AppLandingBiases, t \in {target_from_terrain(terrain)} :
         fitness_calculator = FitnessCalculator(<<t.start, t.end>>, bias)
    /\ current_fitness = [i \in 1..settings.population_size |-> FitnessValue(0, 1)]
    /\ flight_histories = initial_histories(settings.population_size, initial_lander_state)
    /\ population_id = 0
    /\ app_call = "try_new"
    /\ app_result = "Ok"
    /\ PhysicsIdle
    /\ CrossedIdle
    /\ MapIteratorIdle
    /\ CheckerIdle

\* one call App::run() on a freshly initialised runner
AppRun ==
    /\ app_result # "panic"
    /\ exec_status = "none"
    /\ \E r \in {app_run(terrain,
                          [landers |-> landers, states |-> states,
                           pop |-> accumulated_population,
                           iteration_id |-> iteration_id],
                          flight_histories)} :
          /\ landers' = r.landers
          /\ states' = r.states
          /\ accumulated_population' = r.pop
          /\ iteration_id' = r.iteration_id
          /\ exec_status' = r.status
          /\ flight_histories' = r.flight_histories
          /\ app_result' = IF r.status = "Finished" THEN "Ok" ELSE "Err"
    /\ app_call' = "run"
    /\ UNCHANGED <<population, population_before, fitness_in, solver_result,
                   generation, fitness_calculator, current_fitness, population_id,
                   scenario_vars, ph_vars, ck_vars, cc_vars,
                   cr_vars, mi_vars>>

\* one call App::next_population(), before or after a run
AppNextPopulation ==
    /\ app_result # "panic"
    /\ population_id < MaxGenerations
    /\ \E draws \in MateDraws(Len(population), settings.chromosome_size,
                            settings.elitism, settings.mutation_prob),
          nan_above \in BOOLEAN :
       \E r \in {next_population(
                    [population |-> population,
                     accumulated_population |-> accumulated_population,
                     elitism |-> settings.elitism,
                     initial_lander_state |-> initial_lander_state,
                     fitness_calculator |-> fitness_calculator,
                     landers |-> landers, states |-> states,
                     iteration_id |-> iteration_id,
                     flight_histories |-> flight_histories,
                     current_fitness |-> current_fitness,
                     population_id |-> population_id,
                     result |-> "none"],
                    draws, nan_above)} :
          /\ population' = r.population
          /\ accumulated_population' = r.accumulated_population
          /\ landers' = r.landers
          /\ states' = r.states
          /\ iteration_id' = r.iteration_id
          /\ flight_histories' = r.flight_histories
          /\ current_fitness' = r.current_fitness
          /\ population_id' = r.population_id
          /\ app_result' = r.result
          /\ exec_status' = IF r.result = "Ok" THEN "none" ELSE exec_status
    /\ app_call' = "next_population"
    /\ UNCHANGED <<population_before, fitness_in, solver_result, generation,
                   fitness_calculator, scenario_vars, ph_vars, ck_vars, cc_vars,
                   cr_vars, mi_vars>>

NextApp == AppRun \/ AppNextPopulation

SpecApp == InitApp /\ [][NextApp]_vars

----------------------------------------------------------------------------
(* crossed on drawn parents and cross points *)

\* delta genes of a parent, by step range
CrossedGenes(range) ==
    IF range = ANGLE_STEP_RANGE THEN {-15, -4, 7, 15} ELSE {-1, 0, 1}

\* cross points, two of them outside [0, 1]
CrossedPoints ==
    {Ratio(-1, 2), Ratio(0, 1), Ratio(1, 4), Ratio(1, 2), Ratio(3, 4), Ratio(1, 1),
     Ratio(3, 2)}

InitCrossed ==
    /\ cr_range \in {ANGLE_STEP_RANGE, THRUST_STEP_RANGE}
    /\ \E la \in 0..MaxGenes, lb \in 0..MaxGenes :
         /\ cr_a \in [1..la -> CrossedGenes(cr_range)]
         /\ cr_b \in [1..lb -> CrossedGenes(cr_range)]
    /\ cr_i \in CrossedPoints
    /\ cr_result = [ok |-> FALSE, x |-> <<>>, y |-> <<>>]
    /\ cr_swapped = cr_result
    /\ cr_done = FALSE
    /\ MapIteratorIdle
    /\ PhysicsIdle
    /\ CheckerIdle
    /\ AppIdle

\* crossed(a, b, i, clamp) and crossed(b, a, i, clamp)
CrossedStep ==
    /\ ~cr_done
    /\ cr_result' = crossed(cr_a, cr_b, cr_i, cr_range)
    /\ cr_swapped' = crossed(cr_b, cr_a, cr_i, cr_range)
    /\ cr_done' = TRUE
    /\ UNCHANGED <<cr_a, cr_b, cr_i, cr_range, mi_vars, ph_vars, ck_vars, cc_vars,
                   scenario_vars, solver_vars, runner_vars, app_vars>>

NextCrossed == CrossedStep

SpecCrossed == InitCrossed /\ [][NextCrossed]_vars

----------------------------------------------------------------------------
(* A MapIterator stepped through a drawn polyline *)

\* coordinates of the polyline points, in map units
MapIteratorCoords == {0, 1, 2}

\* MapIterator::new(max_x, max_y, x, y) on a polyline of 0..MaxPoints points
InitMapIterator ==
    /\ \E n \in 0..MaxPoints :
       \E x \in [1..n -> MapIteratorCoords], y \in [1..n -> MapIteratorCoords] :
          mi_terrain = Terrain(2 * Scale, 2 * Scale, Units(x), Units(y))
    /\ previous_point = map_iterator_new(mi_terrain).previous_point
    /\ map_iter = map_iterator_new(mi_terrain).map_iter
    /\ mi_yielded = <<>>
    /\ mi_last = "none"
    /\ CrossedIdle
    /\ PhysicsIdle
    /\ CheckerIdle
    /\ AppIdle

\* one call MapIterator::next()
MapIteratorNext ==
    /\ \E r \in {map_iterator_next([previous_point |-> previous_point,
                                      map_iter |-> map_iter])} :
          /\ previous_point' = r.previous_point
          /\ map_iter' = r.map_iter
          /\ mi_yielded' = IF r.some THEN Append(mi_yielded, r.segment) ELSE mi_yielded
          /\ mi_last' = IF r.some THEN "Some" ELSE "None"
    /\ UNCHANGED <<mi_terrain, cr_vars, ph_vars, ck_vars, cc_vars,
                   scenario_vars, solver_vars, runner_vars, app_vars>>

NextMapIterator == MapIteratorNext

SpecMapIterator == InitMapIterator /\ [][NextMapIterator]_vars

----------------------------------------------------------------------------
(* Claims about Solver.new_generation, under SpecSolver *)

\* C1: after construction and after every new_generation the population holds
\* exactly population_size chromosomes, each with exactly chromosome_size
\* angle genes and chromosome_size thrust genes, also when
\* population_size - floor(elitism * population_size) is odd.
C1_PopulationShape ==
    /\ Len(population) = settings.population_size
    /\ \A i \in 1..Len(population) :
          /\ Len(population[i].angles) = settings.chromosome_size
          /\ Len(population[i].thrusts) = settings.chromosome_size

\* floor(elitism * population_size) of the call
EliteCount == (settings.elitism.num * Len(population_before)) \div settings.elitism.den

\* the chromosome ranked k-th by the fitness passed to the call: k - 1
\* chromosomes have a higher fitness or the same fitness and an earlier place
Ranked(k) ==
    LET i == CHOOSE i \in 1..Len(population_before) :
                Cardinality({ j \in 1..Len(population_before) :
                                \/ fitness_in[j] > fitness_in[i]
                                \/ fitness_in[j] = fitness_in[i] /\ j < i }) = k - 1
    IN population_before[i]

\* C2 as stated: after new_generation(fitness) the chromosome that had the
\* highest fitness appears verbatim in the new population, and the
\* floor(elitism * population_size) highest ranked chromosomes (descending,
\* ties in original order) are carried over unchanged.
C2_BestIsCarriedOver ==
    (solver_result # "none") =>
        /\ \E j \in 1..Len(population) : population[j] = Ranked(1)
        /\ \A k \in 1..EliteCount :
              population[Len(population) - EliteCount + k] = Ranked(k)

\* C2, amended: after new_generation(fitness) the
\* floor(elitism * population_size) highest ranked chromosomes (descending,
\* ties in original order) are carried over unchanged, as the last entries of
\* the new population in rank order; so the chromosome that had the highest
\* fitness appears verbatim whenever floor(elitism * population_size) >= 1.
C2_ElitesAreCarriedOver ==
    (solver_result # "none") =>
        /\ \A k \in 1..EliteCount :
              population[Len(population) - EliteCount + k] = Ranked(k)
        /\ (EliteCount >= 1) =>
              \E j \in 1..Len(population) : population[j] = Ranked(1)

C2_Witness ==
    /\ solver_result = "Ok"
    /\ EliteCount >= 1
    /\ EliteCount < Len(population_before)
    /\ fitness_in[1] < fitness_in[Len(fitness_in)]
    /\ population[Len(population) - EliteCount + 1] = population_before[Len(population_before)]
    /\ population[1] # population_before[1]

\* C18: new_generation called with a fitness sequence whose length differs
\* from the population size (shorter or longer) returns an error, neither
\* panicking nor producing a generation, and leaves the population unchanged.
C18_MismatchedFitnessRejected ==
    (solver_result # "none" /\ Len(fitness_in) # Len(population_before)) =>
        /\ solver_result = "Err"
        /\ population = population_before
        /\ accumulated_population =
              accumulated_population_of(initial_lander_state.angle,
                                        initial_lander_state.power, population_before)

----------------------------------------------------------------------------
(* Claims about FitnessCalculator.calculate_fitness, under SpecFitness *)

\* the base score of a landing kind, in tenths
BaseScoreTenths(kind) ==
    CASE kind = "Correct" -> 10
      [] kind = "NotVertical" -> 9
      [] kind = "TooFastVertical" -> 7
      [] kind = "TooFastHorizontal" -> 5
      [] kind = "WrongTerrain" -> 3

\* the errors of the landers that ended with the kind of lander i
ErrorsOfKind(i) ==
    { states[j].landing.err :
        j \in { k \in 1..Len(states) : states[k].landing.kind = states[i].landing.kind } }

\* (1 - normalized_error) * base_score of lander i as num / den, with
\* normalized_error = (err - min) / (max - min), 0 when max = min
StatedFitness(i) ==
    LET lo == CHOOSE m \in ErrorsOfKind(i) : \A e \in ErrorsOfKind(i) : m <= e
        hi == CHOOSE m \in ErrorsOfKind(i) : \A e \in ErrorsOfKind(i) : e <= m
        b  == BaseScoreTenths(states[i].landing.kind)
    IN IF states[i].landing.kind = "Correct" \/ hi = lo THEN Ratio(b, 10)
       ELSE Ratio((hi - states[i].landing.err) * b, (hi - lo) * 10)

\* C20: each lander's fitness is (1 - normalized_error) * base_score with
\* base scores Correct 1.0, NotVertical 0.9, TooFastVertical 0.7,
\* TooFastHorizontal 0.5, WrongTerrain 0.3, normalized_error taken over the
\* landers of the same kind and 0 when max = min (no division by zero);
\* every fitness lies in [0, 1], and exactly the Correct landings get 1.0.
C20_FitnessFormula ==
    (app_call = "calculate_fitness") =>
        \A i \in 1..Len(states) :
            LET f == current_fitness[i]
            IN /\ ~f.nan
               /\ f.num * StatedFitness(i).den = StatedFitness(i).num * f.den
               /\ 0 <= f.num /\ f.num <= f.den
               /\ (f.num = f.den) <=> (states[i].landing.kind = "Correct")

----------------------------------------------------------------------------
(* Claims about App.run and App.next_population, under SpecApp *)

EvenChildren ==
    (settings.population_size
       - (settings.elitism.num * settings.population_size) \div settings.elitism.den) % 2 = 0

\* C19: with a lander that starts inside the map and settings with an even
\* number of children, every call of construct -> (run -> next_population)*
\* succeeds: run() never returns an error, and next_population() fails only
\* when it is called before the run, with the landers still Flying.
C19_ProtocolNeverFails ==
    EvenChildren =>
        /\ (app_call = "run") => (app_result = "Ok" /\ exec_status = "Finished")
        /\ (app_call = "next_population" /\ app_result # "Ok") =>
              \E i \in 1..Len(states) : states[i].tag = "Flying"

C19_Witness ==
    /\ EvenChildren
    /\ InsideMap(terrain, initial_lander_state)
    /\ population_id = 2
    /\ app_call = "run"
    /\ app_result = "Ok"
    /\ \A i \in 1..Len(states) : states[i].tag = "Landed"

----------------------------------------------------------------------------
(* Claims about Physics.iterate, under SpecPhysics *)

\* the distance by which a tracked value moved toward its command: the whole
\* gap when the gap is within the step, else exactly one step in its direction
TracksToward(old, new, cmd, step) ==
    /\ (Abs(cmd - old) <= step) => (new = cmd)
    /\ (cmd - old > step) => (new = old + step)
    /\ (old - cmd > step) => (new = old - step)

\* C8: Physics.iterate fails with InvalidThrust exactly when the command has
\* |angle| > 90, power < 0 or power > 4; a failed call produces no successor
\* state (the lander is as before) and every valid command yields Ok.
C8_InvalidThrustExactly ==
    (ph_steps > 0) =>
        /\ (ph_result = "InvalidThrust")
              <=> \/ ph_cmd.angle > 90 \/ ph_cmd.angle < -90
                  \/ ph_cmd.power < 0 \/ ph_cmd.power > 4
        /\ (ph_result = "InvalidThrust") => (ph_lander = ph_prev)
        /\ (ph_result # "InvalidThrust") => (ph_result = "Ok")

C8_Witness ==
    /\ ph_steps = 2
    /\ ph_result = "InvalidThrust"
    /\ ph_cmd.power = -1
    /\ ph_cmd.angle = 0

\* C9: with fuel > commanded power, the new power is the old one moved toward
\* the command by at most 1 and the new angle the old one moved toward the
\* command by at most 15; with fuel <= commanded power the new power is 0 and
\* the angle is unchanged.
C9_ControlTracking ==
    (ph_result = "Ok") =>
        IF ph_prev.fuel > ph_cmd.power
        THEN /\ TracksToward(ph_prev.power, ph_lander.power, ph_cmd.power, 1)
             /\ TracksToward(ph_prev.angle, ph_lander.angle, ph_cmd.angle, 15)
        ELSE /\ ph_lander.power = 0
             /\ ph_lander.angle = ph_prev.angle

C9_Witness ==
    /\ ph_result = "Ok"
    /\ ph_prev.fuel > ph_cmd.power
    /\ ph_cmd.angle - ph_prev.angle > 15
    /\ ph_lander.angle = ph_prev.angle + 15
    /\ ph_cmd.power - ph_prev.power > 1
    /\ ph_lander.power = ph_prev.power + 1

\* C10: every successful step sets fuel' = max(0, fuel - power') with power'
\* the power after control tracking of that step; fuel never increases, and
\* while fuel is still positive the fuel consumed since the start equals the
\* sum of the applied powers.
C10_FuelAccounting ==
    /\ (ph_result = "Ok") =>
          /\ ph_lander.fuel = Max(0, ph_prev.fuel - ph_lander.power)
          /\ ph_lander.fuel <= ph_prev.fuel
    /\ (ph_lander.fuel > 0) => (ph_fuel0 - ph_lander.fuel = ph_burn)

C10_Witness ==
    /\ ph_steps = 2
    /\ ph_result = "Ok"
    /\ ph_lander.power # ph_prev.power
    /\ ph_lander.power > 0
    /\ ph_lander.fuel > 0
    /\ ph_burn > ph_lander.power

\* C11: from a lander with fuel >= 0, angle in [-90, 90] and power in [0, 4],
\* every state reached by successful Physics.iterate calls (failed calls leave
\* the lander as it was) has fuel >= 0, angle in [-90, 90] and power in [0, 4].
C11_LanderStateRanges ==
    /\ ph_lander.fuel >= 0
    /\ -ANGLE_LIMIT <= ph_lander.angle /\ ph_lander.angle <= ANGLE_LIMIT
    /\ 0 <= ph_lander.power /\ ph_lander.power <= POWER_MAX

\* a second successful step that burns more than the fuel left, after a step
\* that turned the lander to the angle limit
C11_Witness ==
    /\ ph_steps = 2
    /\ ph_result = "Ok"
    /\ ph_prev.fuel > ph_cmd.power
    /\ ph_prev.fuel < ph_lander.power
    /\ ph_lander.fuel = 0
    /\ ph_lander.angle = -ANGLE_LIMIT

----------------------------------------------------------------------------
(* Claims about Solver.try_new, under SpecConstruct *)

\* seq is the running clamped sum of deltas from initial_value: each entry is
\* the entry before it (initial_value for the first) plus the delta, clamped
RunningClampedSum(seq, deltas, initial_value, range) ==
    /\ Len(seq) = Len(deltas)
    /\ \A k \in 1..Len(deltas) :
         LET before == IF k = 1 THEN initial_value ELSE seq[k - 1]
             sum    == before + deltas[k]
         IN seq[k] = IF sum < range.lo THEN range.lo
                     ELSE IF sum > range.hi THEN range.hi
                     ELSE sum

\* C12: the accumulated form of every delta chromosome is the running sum
\* from the initial value, clamped at every step to [-90, 90] for angles and
\* [0, 4] for thrusts; every accumulated command is a valid thrust and
\* consecutive accumulated commands differ by at most 15 in angle and 1 in
\* thrust.
C12_RunningClampedSum ==
    (solver_result = "Ok") =>
        /\ Len(accumulated_population) = Len(population)
        /\ \A i \in 1..Len(population) :
             LET acc == accumulated_population[i]
             IN /\ RunningClampedSum(acc.angles, population[i].angles,
                                     initial_lander_state.angle, ANGLE_RANGE)
                /\ RunningClampedSum(acc.thrusts, population[i].thrusts,
                                     initial_lander_state.power, THRUST_RANGE)
                /\ \A k \in 1..Len(acc.angles) :
                     validate_thrust(Thrust(acc.angles[k], acc.thrusts[k]))
                /\ \A k \in 2..Len(acc.angles) :
                     /\ Abs(acc.angles[k] - acc.angles[k - 1]) <= ANGLE_STEP
                     /\ Abs(acc.thrusts[k] - acc.thrusts[k - 1]) <= POWER_STEP

\* a thrust and an angle that saturate and come back from the limit
C12_Witness ==
    /\ solver_result = "Ok"
    /\ initial_lander_state.angle = 85
    /\ initial_lander_state.power = 3
    /\ Len(population) = 2
    /\ population[1].thrusts = <<1, -1>>
    /\ accumulated_population[1].thrusts = <<4, 3>>
    /\ population[2].angles = <<15, -15>>
    /\ accumulated_population[2].angles = <<90, 75>>

\* C15: construction fails whenever PopulationSize < 2, ChromosomeSize < 1,
\* Elitism is outside [0, 1] or MutationProb is outside [0, 1], and succeeds
\* otherwise.
C15_OutOfRangeSettingsRejected ==
    (solver_result # "none") =>
        ((solver_result = "Err") <=>
            \/ settings.population_size < 2
            \/ settings.chromosome_size < 1
            \/ settings.elitism.num < 0
            \/ settings.elitism.num > settings.elitism.den
            \/ settings.mutation_prob.num < 0
            \/ settings.mutation_prob.num > settings.mutation_prob.den)

----------------------------------------------------------------------------
(* Claims about check_collision, under SpecCollision *)

\* the point pt lies on the segment seg (exact, on the grid)
OnSegment(pt, seg) ==
    /\ cross(subtract(seg[2], seg[1]), subtract(pt, seg[1])) = 0
    /\ Min(seg[1].x, seg[2].x) <= pt.x /\ pt.x <= Max(seg[1].x, seg[2].x)
    /\ Min(seg[1].y, seg[2].y) <= pt.y /\ pt.y <= Max(seg[1].y, seg[2].y)

\* the end points of seg lie strictly on different sides of the line of other
Straddles(seg, other) ==
    LET d1 == cross(subtract(other[2], other[1]), subtract(seg[1], other[1]))
        d2 == cross(subtract(other[2], other[1]), subtract(seg[2], other[1]))
    IN (d1 > 0 /\ d2 < 0) \/ (d1 < 0 /\ d2 > 0)

\* the two segments have a point in common
SegmentsMeet(a, b) ==
    \/ Straddles(a, b) /\ Straddles(b, a)
    \/ OnSegment(a[1], b) \/ OnSegment(a[2], b)
    \/ OnSegment(b[1], a) \/ OnSegment(b[2], a)

\* the end points of either segment that lie on the other one
SharedEnds(a, b) ==
    {e \in {a[1], a[2]} : OnSegment(e, b)} \cup {e \in {b[1], b[2]} : OnSegment(e, a)}

Parallel(a, b) == cross(subtract(a[2], a[1]), subtract(b[2], b[1])) = 0

\* the segments share exactly one point: they cross or touch, or they are
\* collinear and touch end to end
ShareOnePoint(a, b) ==
    /\ SegmentsMeet(a, b)
    /\ Parallel(a, b) => Cardinality(SharedEnds(a, b)) = 1

\* pt is the common point of the lines of two non-parallel segments, to the
\* nearest grid step
IsCrossingPoint(pt, a, b) ==
    LET r   == subtract(a[2], a[1])
        rs  == cross(r, subtract(b[2], b[1]))
        qps == cross(subtract(b[1], a[1]), subtract(b[2], b[1]))
    IN /\ 2 * Abs((pt.x - a[1].x) * rs - r.x * qps) <= Abs(rs)
       /\ 2 * Abs((pt.y - a[1].y) * rs - r.y * qps) <= Abs(rs)

\* C13: check_collision returns None for every pair of segments without a
\* common point: non-parallel disjoint, parallel non-collinear and collinear
\* disjoint, in every orientation and end point order.
C13_DisjointGivesNone ==
    (cc_done /\ ~SegmentsMeet(cc_a, cc_b)) => ~cc_result.hit

\* C14: for every pair of segments that share exactly one point (crossing,
\* touching at an end point, collinear touching end to end) check_collision
\* returns that point, whatever the order of the end points of either segment.
C14_SharedPointReturned ==
    (cc_done /\ ShareOnePoint(cc_a, cc_b)) =>
        /\ cc_result.hit
        /\ IF Parallel(cc_a, cc_b)
           THEN Vec2(cc_result.x, cc_result.y) \in SharedEnds(cc_a, cc_b)
           ELSE IsCrossingPoint(cc_result, cc_a, cc_b)

----------------------------------------------------------------------------
(* Claims about CollisionChecker.check, under SpecChecker *)

\* the first i with polyline points i and i + 1 at the same height, 0 if none
PolylineFirstFlat(ter) ==
    LET flat == {i \in 1..(Len(ter.y) - 1) : ter.y[i] = ter.y[i + 1]}
    IN IF flat = {} THEN 0 ELSE CHOOSE i \in flat : \A j \in flat : i <= j

\* the distance along the polygon from its origin (0, max_y) to polyline
\* point i: down the left wall, then along the polyline
RECURSIVE PolygonDistTo(_, _)
PolygonDistTo(ter, i) ==
    IF i = 1 THEN distance(Vec2(0, ter.max_y), Vec2(ter.x[1], ter.y[1]))
    ELSE PolygonDistTo(ter, i - 1)
           + distance(Vec2(ter.x[i - 1], ter.y[i - 1]), Vec2(ter.x[i], ter.y[i]))

\* C16: CollisionChecker construction returns None for every terrain whose
\* polyline has no two consecutive points of equal y; when it succeeds the
\* stored target is the along-polygon distance range of the first flat
\* segment of the polyline itself, never of a wall or the ceiling.
C16_TargetIsFirstFlatOfPolyline ==
    (ck_built # "none") =>
        /\ (PolylineFirstFlat(ck_terrain) = 0) => (ck_built = "None")
        /\ (ck_built = "Some") =>
              /\ PolylineFirstFlat(ck_terrain) # 0
              /\ ck_target =
                    [start |-> PolygonDistTo(ck_terrain, PolylineFirstFlat(ck_terrain)),
                     end |-> PolygonDistTo(ck_terrain,
                                           PolylineFirstFlat(ck_terrain) + 1)]

\* the lander path of the drawn inputs and the segment check stops at
CkPath == <<Vec2(ck_prev.x, ck_prev.y), Vec2(ck_cur.x, ck_cur.y)>>

CkSegments == iter_segments(ck_terrain)

CkHitIndex ==
    CHOOSE i \in 1..Len(CkSegments) :
        /\ check_collision(CkSegments[i], CkPath).hit
        /\ \A j \in 1..(i - 1) : ~check_collision(CkSegments[j], CkPath).hit

\* C5: the landing is classified by strict priority on the hit segment:
\* WrongTerrain if it is not flat or is the ceiling (y >= max_y), otherwise
\* TooFastHorizontal{|vx| - 20} if |vx| > 20, otherwise
\* TooFastVertical{|vy| - 40} if |vy| > 40, otherwise NotVertical{|angle|} if
\* angle # 0, otherwise Correct; so Correct is returned exactly for a hit on a
\* flat segment below the ceiling with |vx| <= 20, |vy| <= 40 and angle = 0.
C5_LandingPriority ==
    (ck_done /\ ck_result.some) =>
        LET seg   == CkSegments[CkHitIndex]
            wrong == seg[1].y # seg[2].y \/ seg[1].y >= ck_terrain.max_y
            fastH == Abs(ck_cur.vx) > 20 * Scale
            fastV == Abs(ck_cur.vy) > 40 * Scale
            l     == ck_result.landing
        IN /\ (l.kind = "WrongTerrain") <=> wrong
           /\ (l.kind = "TooFastHorizontal") <=> (~wrong /\ fastH)
           /\ (l.kind = "TooFastHorizontal") => (l.err = Abs(ck_cur.vx) - 20 * Scale)
           /\ (l.kind = "TooFastVertical") <=> (~wrong /\ ~fastH /\ fastV)
           /\ (l.kind = "TooFastVertical") => (l.err = Abs(ck_cur.vy) - 40 * Scale)
           /\ (l.kind = "NotVertical")
                <=> (~wrong /\ ~fastH /\ ~fastV /\ ck_cur.angle # 0)
           /\ (l.kind = "NotVertical") => (l.err = Abs(ck_cur.angle))
           /\ (l.kind = "Correct")
                <=> (~wrong /\ ~fastH /\ ~fastV /\ ck_cur.angle = 0)

C5_Witness ==
    /\ ck_done
    /\ ck_result.some
    /\ ck_result.landing.kind = "TooFastHorizontal"
    /\ Abs(ck_cur.vy) > 40 * Scale
    /\ ck_cur.angle # 0

\* C6: for every WrongTerrain outcome, dist is the distance along the closed
\* map polygon from its start (0, max_y) to the collision point: the summed
\* lengths of the segments before the hit segment plus the distance from the
\* start of the hit segment to the collision point.
C6_DistAlongPolygon ==
    (ck_done /\ ck_result.some /\ ck_result.landing.kind = "WrongTerrain") =>
        ck_result.landing.err =
            dist_before(CkSegments, CkHitIndex - 1)
              + distance(CkSegments[CkHitIndex][1], Vec2(ck_result.x, ck_result.y))

----------------------------------------------------------------------------
(* Claims about the LanderRunner, under SpecRunner and FairSpecRunner *)

AllLanded == \A i \in 1..Len(states) : states[i].tag = "Landed"

\* C3: from an initial lander state inside the closed map polygon, repeated
\* iterate calls eventually return Finished with every lander Landed, so the
\* loop of App.run ends.
C3_GenerationTerminates ==
    InsideMap(terrain, initial_lander_state)
        => <>(exec_status = "Finished" /\ AllLanded)

C3_Witness ==
    /\ InsideMap(terrain, initial_lander_state)
    /\ exec_status = "Finished"
    /\ AllLanded
    /\ iteration_id >= 4

\* C4: once a lander is Landed, no later iterate call changes its
\* FlightState, its LanderState or its chromosome.
C4_LandedIsAbsorbing ==
    [][\A i \in 1..Len(states) :
          (states[i].tag = "Landed") =>
              /\ states'[i] = states[i]
              /\ landers'[i] = landers[i]
              /\ accumulated_population'[i] = accumulated_population[i]]_vars

C4_Witness ==
    /\ exec_status = "Finished"
    /\ AllLanded
    /\ landers[1].fuel # landers[2].fuel
    /\ states[1].landing.kind # states[2].landing.kind

\* the path lander i flies in the step from this state: from its position to
\* the position Physics.iterate gives for the command of this tick (read
\* after the step, so that an angle correction is taken into account)
TickPath(i) ==
    LET g   == get_id_or_last(accumulated_population[i], iteration_id)
        cmd == Thrust(accumulated_population'[i].angles[g.a],
                      accumulated_population'[i].thrusts[g.t])
        nxt == PhysicsIterate(landers[i], cmd).state
    IN <<Vec2(landers[i].x, landers[i].y), Vec2(nxt.x, nxt.y)>>

\* the closing segments of the map polygon: left wall, right wall, ceiling
ClosingSegments(ter) ==
    LET segs == iter_segments(ter)
    IN {segs[1], segs[Len(segs) - 1], segs[Len(segs)]}

\* the segments between the points of the terrain polyline
PolylineSegments(ter) ==
    LET segs == iter_segments(ter)
    IN {segs[k] : k \in 2..(Len(segs) - 2)}

NeverFlyingOutside ==
    \A i \in 1..Len(states) :
        (states[i].tag = "Flying") => InsideMap(terrain, landers[i])

\* lander i ends the step Landed(WrongTerrain) where its path meets wall
LandsOnWall(i, wall) ==
    /\ states'[i].tag = "Landed"
    /\ states'[i].landing.kind = "WrongTerrain"
    /\ LET c == check_collision(wall, TickPath(i))
       IN landers'[i].x = c.x /\ landers'[i].y = c.y

\* C7 as stated: no lander is ever Flying outside the closed map polygon, and
\* in the tick in which a lander's path from a position inside the polygon
\* crosses the left wall, the right wall or the ceiling, check returns a hit
\* at the crossing point and the lander becomes Landed(WrongTerrain).
C7_AnyWallCrossingIsWrongTerrain ==
    [][/\ NeverFlyingOutside'
       /\ \A i \in 1..Len(states) :
            (states[i].tag = "Flying" /\ InsideMap(terrain, landers[i])) =>
              \A wall \in ClosingSegments(terrain) :
                 check_collision(wall, TickPath(i)).hit => LandsOnWall(i, wall)]_vars

\* C7, amended: a lander that starts inside the closed map polygon is never
\* Flying outside it, and in the tick in which its path meets the left wall,
\* the right wall or the ceiling and no segment of the terrain polyline,
\* check returns a hit at the crossing point and the lander becomes
\* Landed(WrongTerrain).
C7_OutOfMapIsCaught ==
    /\ []NeverFlyingOutside
    /\ [][\A i \in 1..Len(states) :
            (/\ states[i].tag = "Flying"
             /\ InsideMap(terrain, landers[i])
             /\ \A seg \in PolylineSegments(terrain) :
                   ~check_collision(seg, TickPath(i)).hit
             /\ \E wall \in ClosingSegments(terrain) :
                   check_collision(wall, TickPath(i)).hit)
              => \E wall \in ClosingSegments(terrain) :
                    /\ check_collision(wall, TickPath(i)).hit
                    /\ LandsOnWall(i, wall)]_vars

C7_Witness ==
    \E i \in 1..Len(states) :
        /\ states[i].tag = "Landed"
        /\ states[i].landing.kind = "WrongTerrain"
        /\ landers[i].x = terrain.max_x
        /\ 0 < landers[i].y /\ landers[i].y < terrain.max_y
        /\ exec_status = "Finished"

\* C21 as stated: the runner's iteration counter never exceeds
\* chromosome_size, and after chromosome_size iterate calls every lander is
\* Landed.
C21_ChromosomeSizeBoundsRun ==
    /\ iteration_id <= settings.chromosome_size
    /\ (iteration_id >= settings.chromosome_size) => AllLanded

\* the (1-based) gene of tick t: its own gene, or the final gene for the
\* ticks past chromosome_size
GeneOfTick(t) ==
    IF t < settings.chromosome_size THEN t + 1 ELSE settings.chromosome_size

\* C21, amended: chromosome_size does not bound the simulation length; every
\* iterate call steps each lander that is still Flying, in tick t with gene
\* min(t, chromosome_size - 1) of its accumulated chromosome (read after the
\* step, so that an angle correction is taken into account), whatever the
\* value of the iteration counter.
C21_FinalGeneIsReused ==
    [][\A i \in 1..Len(states) :
          (states[i].tag = "Flying") =>
             LET k   == GeneOfTick(iteration_id)
                 cmd == Thrust(accumulated_population'[i].angles[k],
                               accumulated_population'[i].thrusts[k])
                 r   == calculate_new_lander_state(terrain, landers[i], cmd)
             IN /\ landers'[i] = r.lander
                /\ states'[i] = r.state
                /\ iteration_id' = iteration_id + 1]_vars

C21_Witness ==
    /\ iteration_id > settings.chromosome_size + 1
    /\ \E i \in 1..Len(states) :
          /\ states[i].tag = "Flying"
          /\ landers[i].y < initial_lander_state.y
          /\ landers[i].power = accumulated_population[i].thrusts[settings.chromosome_size]

AnyFlying == \E i \in 1..Len(states) : states[i].tag = "Flying"

\* C22: iterate returns InProgress exactly when at least one lander was
\* Flying at the start of the call, and then the iteration counter grows by
\* exactly one; otherwise it returns Finished and changes no lander, no
\* FlightState, no chromosome and not the iteration counter.  So the call in
\* which the last lander lands returns InProgress.
C22_InProgressIffAnyFlying ==
    [][IF AnyFlying
       THEN /\ exec_status' = "InProgress"
            /\ iteration_id' = iteration_id + 1
       ELSE /\ exec_status' = "Finished"
            /\ UNCHANGED <<landers, states, accumulated_population, iteration_id>>]_vars

C22_Witness ==
    /\ exec_status = "Finished"
    /\ AllLanded
    /\ iteration_id >= 2
    /\ landers[1].x # landers[2].x

\* C23: population_id is 0 after construction, and after a successful
\* next_population() it is exactly one greater than before, every lander is
\* Flying with the scenario's initial state, the runner's iteration counter
\* is 0, every flight history holds only the initial state, and
\* current_fitness is the fitness of the landings of the generation that
\* just ended.
C23_NextPopulationPostcondition ==
    /\ [](app_call = "try_new" => population_id = 0)
    /\ [][(app_call' = "next_population" /\ app_result' = "Ok") =>
            /\ population_id' = population_id + 1
            /\ Len(landers') = settings.population_size
            /\ Len(states') = settings.population_size
            /\ Len(flight_histories') = settings.population_size
            /\ \A i \in 1..settings.population_size :
                  /\ states'[i] = Flying
                  /\ landers'[i] = initial_lander_state
                  /\ flight_histories'[i] = <<initial_lander_state>>
            /\ iteration_id' = 0
            /\ current_fitness' =
                  calculate_fitness(fitness_calculator,
                                    [i \in 1..Len(states) |-> states[i].landing])]_vars

C23_Witness ==
    /\ app_call = "next_population"
    /\ app_result = "Ok"
    /\ population_id = 2
    /\ current_fitness[1] # current_fitness[2]
    /\ \A i \in 1..Len(states) : states[i] = Flying /\ Len(flight_histories[i]) = 1

\* iterate has set gene k of chromosome i to 0 in place: the command stream
\* differs there from the accumulation of the delta-encoded chromosome
AngleCorrected(i, k) ==
    /\ accumulated_population[i].angles[k] = 0
    /\ accumulated(initial_lander_state.angle, population[i].angles,
                   ANGLE_RANGE)[k] # 0

\* the places of the next population that hold the retained elites
ElitePlaces ==
    { j \in 1..Len(population) :
        j > Len(population)
              - (settings.elitism.num * Len(population)) \div settings.elitism.den }

\* C24: when iterate has set a gene's angle to 0 in place and the corrected
\* chromosome is retained as an elite by the next new_generation, the
\* command stream of that chromosome in the next generation still has angle
\* 0 at the corrected tick.
C24_AngleCorrectionPersists ==
    [][(app_call' = "next_population" /\ app_result' = "Ok") =>
          \A i \in 1..Len(population) :
             \A k \in 1..Len(population[i].angles) :
                \A j \in ElitePlaces :
                   (/\ AngleCorrected(i, k)
                    /\ population'[j] = population[i]
                    /\ \A other \in 1..Len(population) :
                          population[other] = population[i] => other = i)
                      => accumulated_population'[j].angles[k] = 0]_vars

\* the first computation of the tick of lander i, with the gene as it is
\* before the call
FirstComputation(i) ==
    LET g == get_id_or_last(accumulated_population[i], iteration_id)
    IN calculate_new_lander_state(
          terrain, landers[i],
          Thrust(accumulated_population[i].angles[g.a],
                 accumulated_population[i].thrusts[g.t]))

\* the first computation is a near miss: Landed(NotVertical) within one
\* angle step
NearMiss(i) ==
    /\ states[i].tag = "Flying"
    /\ FirstComputation(i).state.tag = "Landed"
    /\ FirstComputation(i).state.landing.kind = "NotVertical"
    /\ FirstComputation(i).state.landing.err <= ANGLE_STEP

\* C25: whenever the first computation of a tick gives
\* Landed(NotVertical{error_abs}) with error_abs <= 15 and the step is
\* recomputed with the gene angle set to 0, the state committed for that
\* tick has lander angle 0 and is not Landed(NotVertical), for every prior
\* lander angle and fuel level.
C25_CorrectionRemovesNearMiss ==
    [][\A i \in 1..Len(states) :
          NearMiss(i) =>
              /\ landers'[i].angle = 0
              /\ ~(states'[i].tag = "Landed"
                     /\ states'[i].landing.kind = "NotVertical")]_vars

----------------------------------------------------------------------------
(* Claims about crossed, under SpecCrossed *)

\* v is num / den (den > 0) rounded to the nearest integer, halves away from
\* zero
IsRounded(v, num, den) ==
    /\ 2 * Abs(v * den - num) <= den
    /\ (2 * Abs(v * den - num) = den) => (Abs(v * den) > Abs(num))

\* v is w clamped to the step range
IsClamped(v, w, range) ==
    IF w < range.lo THEN v = range.lo
    ELSE IF w > range.hi THEN v = range.hi
    ELSE v = w

\* child is the blend i * a + (1 - i) * b, rounded and clamped, gene by gene
IsBlend(child, a, b) ==
    /\ Len(child) = Len(a)
    /\ \A k \in 1..Len(a) :
          \E w \in -30..30 :
             /\ IsRounded(w, cr_i.num * a[k] + (cr_i.den - cr_i.num) * b[k], cr_i.den)
             /\ IsClamped(child[k], w, cr_range)

\* C26: for equal-length delta sequences a, b and i in [0, 1] crossed
\* returns child1[k] = clamp(round(i*a[k] + (1-i)*b[k])) and
\* child2[k] = clamp(round(i*b[k] + (1-i)*a[k])); swapping the parents swaps
\* the children, at i = 0.5 both children are equal, and the children stay in
\* the step range; it returns an error when the lengths differ or i is
\* outside [0, 1].
C26_ArithmeticCrossover ==
    cr_done =>
       IF Len(cr_a) # Len(cr_b) \/ cr_i.num < 0 \/ cr_i.num > cr_i.den
       THEN ~cr_result.ok
       ELSE /\ cr_result.ok
            /\ IsBlend(cr_result.x, cr_a, cr_b)
            /\ IsBlend(cr_result.y, cr_b, cr_a)
            /\ cr_swapped.ok
            /\ cr_swapped.x = cr_result.y
            /\ cr_swapped.y = cr_result.x
            /\ (2 * cr_i.num = cr_i.den) => (cr_result.x = cr_result.y)
            /\ \A k \in 1..Len(cr_a) :
                  /\ cr_range.lo <= cr_result.x[k] /\ cr_result.x[k] <= cr_range.hi
                  /\ cr_range.lo <= cr_result.y[k] /\ cr_result.y[k] <= cr_range.hi

C26_Witness ==
    /\ cr_done
    /\ cr_result.ok
    /\ cr_a = <<-15, 7>>
    /\ cr_b = <<-4, 15>>
    /\ cr_i = Ratio(1, 4)
    /\ cr_result.x = <<-7, 13>>
    /\ cr_result.y = <<-12, 9>>

----------------------------------------------------------------------------
(* Claims about MapIterator, under SpecMapIterator *)

\* the closed chain of a terrain: (0, max_y), the polyline points in order,
\* (max_x, max_y) and (0, max_y) again
ClosedChain ==
    [k \in 1..(Len(mi_terrain.x) + 3) |->
        IF k = 1 \/ k = Len(mi_terrain.x) + 3 THEN Vec2(0, mi_terrain.max_y)
        ELSE IF k = Len(mi_terrain.x) + 2 THEN Vec2(mi_terrain.max_x, mi_terrain.max_y)
        ELSE Vec2(mi_terrain.x[k - 1], mi_terrain.y[k - 1])]

\* C27: for a polyline of n >= 0 points the iterator yields exactly n + 2
\* segments, the first starting at (0, max_y), each starting where the
\* previous one ended, through the polyline points in order, then
\* (max_x, max_y), the last ending at (0, max_y); after the last segment it
\* returns None.
C27_ClosedChain ==
    /\ Len(mi_yielded) <= Len(mi_terrain.x) + 2
    /\ \A k \in 1..Len(mi_yielded) :
          mi_yielded[k] = <<ClosedChain[k], ClosedChain[k + 1]>>
    /\ (mi_last = "None") => (Len(mi_yielded) = Len(mi_terrain.x) + 2)
    /\ (mi_last = "Some") => (Len(mi_yielded) >= 1)

C27_Witness ==
    /\ mi_last = "None"
    /\ Len(mi_terrain.x) = 2
    /\ Len(mi_yielded) = 4
    /\ mi_yielded[1][1] = Vec2(0, mi_terrain.max_y)
    /\ mi_yielded[2][1] # mi_yielded[2][2]
    /\ mi_yielded[4][2] = Vec2(0, mi_terrain.max_y)

----------------------------------------------------------------------------
(* Claims about the fuel Physics.iterate burns, under SpecPhysics *)

\* C28: in every successful Physics.iterate step the power applied (the
\* updated power, used for the thrust vector and the fuel deduction) is at
\* most the fuel available at the start of the step.
C28_NoFuelOverdraw ==
    (ph_result = "Ok") => (ph_lander.power <= ph_prev.fuel)

----------------------------------------------------------------------------
(* Claims about the segment a landing is classified on, under SpecRunner *)

\* a flat segment below the ceiling, the only kind colision_state can call
\* Correct
IsPad(ter, seg) == seg[1].y = seg[2].y /\ seg[1].y < ter.max_y

\* the squared distance from the start of path to the point where it meets seg
MeetingDistance(seg, path) ==
    LET c == check_collision(seg, path)
    IN (c.x - path[1].x) * (c.x - path[1].x) + (c.y - path[1].y) * (c.y - path[1].y)

\* the first point at which path meets the map polygon lies on a pad: some
\* pad segment is met, and no segment of the polygon is met nearer the start
FirstMeetingOnPad(ter, path) ==
    LET segs == iter_segments(ter)
        met  == {k \in 1..Len(segs) : check_collision(segs[k], path).hit}
    IN \E k \in met :
          /\ IsPad(ter, segs[k])
          /\ \A j \in met :
                MeetingDistance(segs[k], path) <= MeetingDistance(segs[j], path)

\* C29: a lander is marked Landed(Correct) only if the first point at which
\* its path in that tick meets the map polygon lies on the flat pad, whatever
\* the order in which the polygon segments are tested.
C29_CorrectOnlyIfPadIsMetFirst ==
    [][\A i \in 1..Len(states) :
          (/\ states[i].tag = "Flying"
           /\ states'[i].tag = "Landed"
           /\ states'[i].landing.kind = "Correct")
            => FirstMeetingOnPad(terrain, TickPath(i))]_vars

----------------------------------------------------------------------------
(* Claims about the commands of the solver, under SpecRunner *)

\* the command of lander i in tick t
CommandOfTick(i, t) ==
    Thrust(accumulated_population[i].angles[GeneOfTick(t)],
           accumulated_population[i].thrusts[GeneOfTick(t)])

\* the power commanded to lander i in the ticks before tick t
RECURSIVE CommandedBefore(_, _)
CommandedBefore(i, t) ==
    IF t = 0 THEN 0
    ELSE CommandedBefore(i, t - 1) + CommandOfTick(i, t - 1).power

\* fuel > commanded power held for lander i on tick t and on all earlier
\* ticks, the lander having burnt what it was commanded
FuelHeldUpTo(i, t) ==
    \A s \in 0..t :
        initial_lander_state.fuel - CommandedBefore(i, s) > CommandOfTick(i, s).power

\* C30: for a lander that starts at the scenario's initial angle and power
\* and is driven by its accumulated chromosome, in every tick such that
\* fuel > commanded power held on this and all earlier ticks and no angle
\* correction was applied, the post-tick angle and power equal the commanded
\* gene, the ticks past chromosome_size that reuse the final gene included.
C30_CommandsAreAchieved ==
    [][\A i \in 1..Len(states) :
          (/\ states[i].tag = "Flying"
           /\ iteration_id' = iteration_id + 1
           /\ FuelHeldUpTo(i, iteration_id)
           /\ landers[i].fuel > CommandOfTick(i, iteration_id).power
           /\ accumulated_population'[i] = accumulated_population[i])
            => /\ landers'[i].angle = CommandOfTick(i, iteration_id).angle
               /\ landers'[i].power = CommandOfTick(i, iteration_id).power]_vars

C30_Witness ==
    /\ iteration_id = settings.chromosome_size + 1
    /\ \E i \in 1..Len(states) :
          /\ states[i].tag = "Flying"
          /\ FuelHeldUpTo(i, iteration_id - 1)
          /\ landers[i].angle # initial_lander_state.angle
          /\ landers[i].power # initial_lander_state.power
          /\ landers[i].angle = CommandOfTick(i, iteration_id - 1).angle
          /\ landers[i].power = CommandOfTick(i, iteration_id - 1).power
          /\ landers[i].fuel < initial_lander_state.fuel

====
